---- MODULE Spec2Model ----
(***************************************************************************)
(* Radius-Finance dashboard (src/dashboard.js): the week-bucketing         *)
(* utility, the aggregation engine, the regional reference lookup and the  *)
(* rendering invocation drawChartForUser.                                  *)
(*                                                                         *)
(* Representation.                                                         *)
(*  - A calendar date string 'YYYY-MM-DD' is its day number (days since    *)
(*    1970-01-01); ISO(y, m, d) computes it.  Comparing two such strings   *)
(*    (s > e) is comparing the day numbers.                                *)
(*  - A JavaScript Date object is an instant, in hours since the epoch     *)
(*    (UTC).  The page's time zone is tz hours east of UTC, a fixed        *)
(*    offset (no daylight-saving change inside the modelled window).       *)
(*    new Date('YYYY-MM-DD') parses as UTC midnight, new Date('YYYY-MM-    *)
(*    DDT00:00:00') as local midnight; getDay, setDate and setHours work   *)
(*    on local fields, toISOString prints the UTC date.                    *)
(*  - An amount is a number of cents; parseFloat maps the amount strings   *)
(*    of the dataset to cents or to NaN.                                   *)
(*  - A CSV text is the sequence of its non-empty lines, a line the        *)
(*    sequence of its cells.  The strings that are normalized or trimmed   *)
(*    are spelled out character by character (Spelling).                   *)
(***************************************************************************)
EXTENDS Integers, Sequences, FiniteSets, TLC

VARIABLES
    tz,         \* the browser's time-zone offset, hours east of UTC
    op,         \* the function applied last ("none" before any call)
    inDate,     \* argument: a date string (dateStr / startIso)
    inEnd,      \* argument: a second date string (endIso)
    inN,        \* argument: n of lastNWeeksEndingAt
    inMax,      \* argument: the dataset's latest date (datasetMax) or Empty
    today,      \* the current UTC date, new Date().toISOString().slice(0,10)
    text,       \* the text of assets/dataset.csv, as its non-empty lines
    rows,       \* the parsed rows of assets/dataset.csv
    feText,     \* the text of filtered_expenditures.csv, as its lines
    userId,     \* the target entity
    selectedTypes,  \* the checked purchase types
    inTypes,    \* argument: the selected types, in document order
    inState,    \* argument: the cohort (state) of computeStateAverageForWeeks
    out,        \* the value the call returned
    invs,       \* the invocations of drawChartForUser, in starting order
    status,     \* the text of #chart-status
    chart,      \* window._dashboardChart
    alive,      \* the charts created and not destroyed
    dom,        \* the category checkboxes, the date inputs, their listeners
    ls          \* localStorage

renderVars == <<invs, status, chart, alive, dom, ls>>

vars == <<tz, op, inDate, inEnd, inN, inMax, today, text, rows, feText,
          userId, selectedTypes, inTypes, inState, out, renderVars>>

\* An empty input value / a null: the falsy value of the date fields.
Empty == 0 - 1

(***************************************************************************)
(* Dates and Date objects                                                  *)
(***************************************************************************)

\* The day number of the calendar date y-m-d (proleptic Gregorian).
ISO(y, m, d) ==
    LET yy  == IF m <= 2 THEN y - 1 ELSE y
        era == yy \div 400
        yoe == yy - era * 400
        mp  == IF m > 2 THEN m - 3 ELSE m + 9
        doy == (153 * mp + 2) \div 5 + d - 1
        doe == yoe * 365 + yoe \div 4 - yoe \div 100 + doy
    IN  era * 146097 + doe - 719468

\* new Date('YYYY-MM-DD'): a date-only string is UTC midnight.
DateFromDateOnly(dateStr) == dateStr * 24

\* new Date('YYYY-MM-DD' + 'T00:00:00'): a date-time string without offset
\* is local time.
DateFromLocalMidnight(iso) == iso * 24 - tz

\* The local calendar day of an instant.
LocalDay(t) == (t + tz) \div 24

\* Date.prototype.getDay(): local weekday, 0 Sun, 1 Mon, ... 6 Sat
\* (1970-01-01 was a Thursday).
getDay(t) == (LocalDay(t) + 4) % 7

\* d.setDate(d.getDate() + k): k local days later, same local time of day.
addDays(t, k) == t + k * 24

\* d.setHours(0,0,0,0): local midnight of the local day.
setHoursZero(t) == LocalDay(t) * 24 - tz

\* d.toISOString().slice(0,10): the UTC calendar day.
toISODate(t) == t \div 24

\* The weekday of a calendar date, 0 Sun .. 6 Sat.
Weekday(day) == (day + 4) % 7

(***************************************************************************)
(* Week bucketing                                                          *)
(***************************************************************************)

\* (day === 0 ? -6 : 1 - day)
mondayDiff(day) == IF day = 0 THEN 0 - 6 ELSE 1 - day

weekStartISO(dateStr) ==
    LET d0   == DateFromDateOnly(dateStr)
        day  == getDay(d0)
        diff == mondayDiff(day)
        d1   == addDays(d0, diff)
        d2   == setHoursZero(d1)
    IN  toISODate(d2)

\* The Monday (as a Date) of the week of the local date iso: the shared
\* prefix of lastNWeeksEndingAt and weeksFromRange.
mondayOf(iso) ==
    LET end  == DateFromLocalMidnight(iso)
        day  == getDay(end)
        diff == mondayDiff(day)
    IN  setHoursZero(addDays(end, diff))

\* for(let i=n-1;i>=0;i--) labels.push(monday - i*7 days)
lastNWeeksEndingAt(n, endIso) ==
    LET monday == mondayOf(endIso)
    IN  [k \in 1..n |-> toISODate(addDays(monday, 0 - (n - k) * 7))]

WeekCap == 520

\* for(d = mondayStart; d <= mondayEnd; d += 7 days){ push; if(labels.length
\* > 520) break; }: the condition d <= mondayEnd admits `rounds` pushes, and
\* the push after which the length test first succeeds is the last one.
weeksLoop(mondayStart, mondayEnd) ==
    LET rounds   == IF mondayStart <= mondayEnd
                    THEN (mondayEnd - mondayStart) \div (7 * 24) + 1
                    ELSE 0
        breaking == {k \in 1..rounds : k > WeekCap}
        pushes   == IF breaking = {} THEN rounds
                    ELSE CHOOSE k \in breaking : \A j \in breaking : k <= j
    IN  [k \in 1..pushes |-> toISODate(addDays(mondayStart, 7 * (k - 1)))]

weeksFromRange(startIso, endIso) ==
    weeksLoop(mondayOf(startIso), mondayOf(endIso))

\* lastNWeeks(n): the default, ending today.
lastNWeeks(n) == lastNWeeksEndingAt(n, today)

\* drawChartForUser, "Decide which weeks to show": the caller swaps a
\* reversed pair of input values, then falls back to the last 6 weeks.
chooseWeeks_noSwap(startValue, endValue, datasetMax) ==
    LET ranged == IF startValue # Empty /\ endValue # Empty
                  THEN weeksFromRange(startValue, endValue)
                  ELSE <<>>
    IN  IF Len(ranged) = 0
        THEN IF datasetMax # Empty THEN lastNWeeksEndingAt(6, datasetMax)
             ELSE lastNWeeks(6)
        ELSE ranged

chooseWeeks(startValue, endValue, datasetMax) ==
    LET s == IF startValue > endValue THEN endValue ELSE startValue
        e == IF startValue > endValue THEN startValue ELSE endValue
        ranged == IF startValue # Empty /\ endValue # Empty
                  THEN weeksFromRange(s, e)
                  ELSE <<>>
    IN  IF Len(ranged) = 0
        THEN IF datasetMax # Empty THEN lastNWeeksEndingAt(6, datasetMax)
             ELSE lastNWeeks(6)
        ELSE ranged

(***************************************************************************)
(* Aggregation engine                                                      *)
(***************************************************************************)

\* new Map()
EmptyMap == [x \in {} |-> 0]

\* m.set(k, v)
MapSet(m, k, v) == [x \in (DOMAIN m) \cup {k} |-> IF x = k THEN v ELSE m[x]]

\* (m.get(k) || 0)
GetOrZero(m, k) == IF k \in DOMAIN m THEN m[k] ELSE 0

\* m.get(k) || new Map()
GetOrEmpty(m, k) == IF k \in DOMAIN m THEN m[k] ELSE EmptyMap

\* The amount strings of the dataset and the number parseFloat reads from
\* each, in cents; any other string ('abc', a missing field) parses to NaN.
AmountCents ==
    [s \in {"50", "20.10", "0", "45.50", "50.25", "110", "120.5", "400"} |->
        CASE s = "50"    -> 5000
          [] s = "20.10" -> 2010
          [] s = "0"     -> 0
          [] s = "45.50" -> 4550
          [] s = "50.25" -> 5025
          [] s = "110"   -> 11000
          [] s = "120.5" -> 12050
          [] s = "400"   -> 40000]

parseFloat(s) ==
    IF s \in DOMAIN AmountCents
    THEN [nan |-> FALSE, cents |-> AmountCents[s]]
    ELSE [nan |-> TRUE, cents |-> 0]

\* Number((num / den).toFixed(2)), in cents: the nearest cent, a tie away
\* from zero.
toFixed2(num, den) ==
    IF num >= 0 THEN (2 * num + den) \div (2 * den)
    ELSE 0 - ((2 * (0 - num) + den) \div (2 * den))

\* The body of the aggregation loop for one row (the same statements in
\* computeAggregates and in drawChartForUser).
accumulate_allIds(acc, r, uid) ==
    LET amt == parseFloat(r.purchase_amount)
    IN  IF amt.nan THEN acc
        ELSE
          LET week    == weekStartISO(r.purchase_date)
              um      == MapSet(acc.userMap, week,
                                GetOrZero(acc.userMap, week) + amt.cents)
              inState0 == GetOrEmpty(acc.stateUserWeek, r.location)
              weekMap == GetOrEmpty(inState0, r.id)
              weekMap1 == MapSet(weekMap, week,
                                 GetOrZero(weekMap, week) + amt.cents)
          IN  [userMap |-> um,
               stateUserWeek |->
                   MapSet(acc.stateUserWeek, r.location,
                          MapSet(inState0, r.id, weekMap1))]

accumulate_nanAsZero(acc, r, uid) ==
    LET amt == parseFloat(r.purchase_amount)
        week    == weekStartISO(r.purchase_date)
        um      == IF r.id = uid
                   THEN MapSet(acc.userMap, week,
                               GetOrZero(acc.userMap, week) + amt.cents)
                   ELSE acc.userMap
        inState0 == GetOrEmpty(acc.stateUserWeek, r.location)
        weekMap == GetOrEmpty(inState0, r.id)
        weekMap1 == MapSet(weekMap, week,
                           GetOrZero(weekMap, week) + amt.cents)
    IN  [userMap |-> um,
         stateUserWeek |->
             MapSet(acc.stateUserWeek, r.location,
                    MapSet(inState0, r.id, weekMap1))]

accumulate(acc, r, uid) ==
    LET amt == parseFloat(r.purchase_amount)
    IN  IF amt.nan THEN acc
        ELSE
          LET week    == weekStartISO(r.purchase_date)
              um      == IF r.id = uid
                         THEN MapSet(acc.userMap, week,
                                     GetOrZero(acc.userMap, week) + amt.cents)
                         ELSE acc.userMap
              inState0 == GetOrEmpty(acc.stateUserWeek, r.location)
              weekMap == GetOrEmpty(inState0, r.id)
              weekMap1 == MapSet(weekMap, week,
                                 GetOrZero(weekMap, week) + amt.cents)
          IN  [userMap |-> um,
               stateUserWeek |->
                   MapSet(acc.stateUserWeek, r.location,
                          MapSet(inState0, r.id, weekMap1))]

EmptyAggregates == [userMap |-> EmptyMap, stateUserWeek |-> EmptyMap]

RECURSIVE aggregateLoop(_, _, _, _)
aggregateLoop(rs, uid, i, acc) ==
    IF i > Len(rs) THEN acc
    ELSE aggregateLoop(rs, uid, i + 1, accumulate(acc, rs[i], uid))

\* computeAggregates(rows, userId): every category.
computeAggregates(rs, uid) == aggregateLoop(rs, uid, 1, EmptyAggregates)

RECURSIVE filteredLoop(_, _, _, _, _)
filteredLoop(rs, uid, typesSet, i, acc) ==
    IF i > Len(rs) THEN acc
    ELSE IF rs[i].purchase_type \notin typesSet
         THEN filteredLoop(rs, uid, typesSet, i + 1, acc)
         ELSE filteredLoop(rs, uid, typesSet, i + 1,
                           accumulate(acc, rs[i], uid))

\* drawChartForUser, "accumulate per-week sums": only the selected types.
aggregateFiltered(rs, uid, typesSet) ==
    filteredLoop(rs, uid, typesSet, 1, EmptyAggregates)

RECURSIVE sumWeek(_, _, _)
sumWeek(userMap, ids, w) ==
    IF ids = {} THEN 0
    ELSE LET id == CHOOSE x \in ids : TRUE
         IN  GetOrZero(userMap[id], w) + sumWeek(userMap, ids \ {id}, w)

computeStateAverageForWeeks_countNonZero(stateUserWeekMap, state, weeks) ==
    LET userMap == GetOrEmpty(stateUserWeekMap, state)
    IN  [k \in 1..Len(weeks) |->
            LET sum   == sumWeek(userMap, DOMAIN userMap, weeks[k])
                count == Cardinality({id \in DOMAIN userMap :
                                         GetOrZero(userMap[id], weeks[k]) # 0})
            IN  IF count = 0 THEN 0 ELSE toFixed2(sum, count)]

computeStateAverageForWeeks_countPlusOne(stateUserWeekMap, state, weeks) ==
    LET userMap == GetOrEmpty(stateUserWeekMap, state)
    IN  [k \in 1..Len(weeks) |->
            LET sum   == sumWeek(userMap, DOMAIN userMap, weeks[k])
                count == Cardinality(DOMAIN userMap) + 1
            IN  toFixed2(sum, count)]

computeStateAverageForWeeks(stateUserWeekMap, state, weeks) ==
    LET userMap == GetOrEmpty(stateUserWeekMap, state)
    IN  [k \in 1..Len(weeks) |->
            LET sum   == sumWeek(userMap, DOMAIN userMap, weeks[k])
                count == Cardinality(DOMAIN userMap)
            IN  IF count = 0 THEN 0 ELSE toFixed2(sum, count)]

mapUserToWeeks_recordedWeeks(userMap, weeks) ==
    LET recorded == SelectSeq(weeks, LAMBDA w : GetOrZero(userMap, w) # 0)
    IN  [k \in 1..Len(recorded) |->
            toFixed2(GetOrZero(userMap, recorded[k]), 1)]

mapUserToWeeks(userMap, weeks) ==
    [k \in 1..Len(weeks) |-> toFixed2(GetOrZero(userMap, weeks[k]), 1)]

\* rows.find(r => r.id === String(userId)): the index of the first row of
\* the entity, 0 when it has none.
firstRowIndex(rs, uid) ==
    IF \E i \in 1..Len(rs) : rs[i].id = uid
    THEN CHOOSE i \in 1..Len(rs) :
            /\ rs[i].id = uid
            /\ \A j \in 1..(i - 1) : rs[j].id # uid
    ELSE 0

stateOf_neverNull(rs, uid) ==
    IF firstRowIndex(rs, uid) = 0 THEN "Texas"
    ELSE rs[firstRowIndex(rs, uid)].location

\* const state = firstRow ? firstRow.location : null
stateOf(rs, uid) ==
    IF firstRowIndex(rs, uid) = 0 THEN ""
    ELSE rs[firstRowIndex(rs, uid)].location

\* drawChartForUser, the else branch of the selection test: the two series
\* of a non-empty selection.
filteredSeries(rs, uid, selected, weeks) ==
    LET agg == aggregateFiltered(rs, uid, selected)
    IN  [userData |-> mapUserToWeeks(agg.userMap, weeks),
         stateAvg |-> computeStateAverageForWeeks(agg.stateUserWeek,
                                                  stateOf(rs, uid), weeks)]

(***************************************************************************)
(* Regional reference lookup and income normalization                      *)
(***************************************************************************)

\* The characters of the strings of the model; a string that is not spelled
\* out has neither a space at an end nor a part in the text processing.
Spelling(s) ==
    CASE s = "Food" ->
           <<"F", "o", "o", "d">>
      [] s = "Gas" ->
           <<"G", "a", "s">>
      [] s = "Gasoline" ->
           <<"G", "a", "s", "o", "l", "i", "n", "e">>
      [] s = "Housing" ->
           <<"H", "o", "u", "s", "i", "n", "g">>
      [] s = "Groceries" ->
           <<"G", "r", "o", "c", "e", "r", "i", "e", "s">>
      [] s = "grocery store" ->
           <<"g", "r", "o", "c", "e", "r", "y", " ", "s", "t", "o", "r", "e">>
      [] s = "Grocer" ->
           <<"G", "r", "o", "c", "e", "r">>
      [] s = " Groceries " ->
           <<" ", "G", "r", "o", "c", "e", "r", "i", "e", "s", " ">>
      [] s = "GAS & OIL" ->
           <<"G", "A", "S", " ", "&", " ", "O", "I", "L">>
      [] s = "Gas-Oil 2" ->
           <<"G", "a", "s", "-", "O", "i", "l", " ", "2">>
      [] s = "--" ->
           <<"-", "-">>
      [] s = "Texas" ->
           <<"T", "e", "x", "a", "s">>
      [] s = " Texas " ->
           <<" ", "T", "e", "x", "a", "s", " ">>
      [] s = "Ohio" ->
           <<"O", "h", "i", "o">>
      [] OTHER -> <<>>

\* The strings the model spells out.
Names ==
    {"Food", "Gas", "Gasoline", "Housing", "Groceries",
     "grocery store", "Grocer", " Groceries ", "GAS & OIL", "Gas-Oil 2",
     "--", "Texas", " Texas ", "Ohio"}

UpperCase == <<"A", "B", "C", "D", "E", "F", "G", "H", "I", "J", "K", "L", "M",
               "N", "O", "P", "Q", "R", "S", "T", "U", "V", "W", "X", "Y", "Z">>
LowerCase == <<"a", "b", "c", "d", "e", "f", "g", "h", "i", "j", "k", "l", "m",
               "n", "o", "p", "q", "r", "s", "t", "u", "v", "w", "x", "y", "z">>
Digits == {"0", "1", "2", "3", "4", "5", "6", "7", "8", "9"}

toLowerCase(c) ==
    IF \E i \in 1..Len(UpperCase) : UpperCase[i] = c
    THEN LowerCase[CHOOSE i \in 1..Len(UpperCase) : UpperCase[i] = c]
    ELSE c

\* a character the pattern /[^a-z0-9]+/g keeps
isAlnum(c) ==
    \/ \E i \in 1..Len(LowerCase) : LowerCase[i] = c
    \/ c \in Digits

\* norm = s => String(s||'').toLowerCase().replace(/[^a-z0-9]+/g,'')
norm(s) ==
    LET cs == Spelling(s)
    IN  SelectSeq([i \in 1..Len(cs) |-> toLowerCase(cs[i])], isAlnum)

\* String(s).trim(): the string without the spaces at its two ends.
trim(s) ==
    LET cs      == Spelling(s)
        inner   == {i \in 1..Len(cs) : cs[i] # " "}
        first   == CHOOSE i \in inner : \A j \in inner : i <= j
        last    == CHOOSE i \in inner : \A j \in inner : i >= j
    IN  IF cs = <<>> THEN s
        ELSE IF inner = {} THEN ""
        ELSE CHOOSE n \in Names : Spelling(n) = SubSeq(cs, first, last)

\* a.includes(b)
includes(a, b) ==
    \E i \in 0..(Len(a) - Len(b)) : SubSeq(a, i + 1, i + Len(b)) = b

keyMatches_sharedStem(k, target) ==
    \/ k = target \/ includes(k, target) \/ includes(target, k)
    \/ Len(k) >= 6 /\ Len(target) >= 6 /\ SubSeq(k, 1, 6) = SubSeq(target, 1, 6)

\* k === target || k.includes(target) || target.includes(k)
keyMatches(k, target) ==
    k = target \/ includes(k, target) \/ includes(target, k)

matchedIndex_lastHit(feMap, t) ==
    LET hits == {i \in 1..Len(feMap) : keyMatches(norm(feMap[i].item), norm(t))}
    IN  IF hits = {} THEN 0
        ELSE CHOOSE i \in hits : \A j \in hits : i >= j

\* The index in feMap of the first key that matches type t, 0 when none.
matchedIndex(feMap, t) ==
    LET hits == {i \in 1..Len(feMap) : keyMatches(norm(feMap[i].item), norm(t))}
    IN  IF hits = {} THEN 0
        ELSE CHOOSE i \in hits : \A j \in hits : i <= j

\* The regions of an entry and the header its column is found under.
Regions == {"United States", "Northeast", "Midwest", "South", "West"}

ColumnOf ==
    [g \in Regions |->
        CASE g = "United States" -> "United States Mean (Weekly $)"
          [] g = "Northeast"     -> "Northeast Mean (Weekly $)"
          [] g = "Midwest"       -> "Midwest Mean (Weekly $)"
          [] g = "South"         -> "South Mean (Weekly $)"
          [] g = "West"          -> "West Mean (Weekly $)"]

\* parseFloat(parts[idx[h]] || '0') || 0, in cents: a column the header
\* lacks, a cell the line lacks, an empty cell and a cell that is no number
\* all give 0.
cellValue(header, parts, h) ==
    LET cols == {c \in 1..Len(header) : trim(header[c]) = h}
        col  == CHOOSE c \in cols : \A d \in cols : c >= d
        cell == IF cols = {} THEN ""
                ELSE IF col > Len(parts) THEN ""
                ELSE parts[col]
        p    == parseFloat(IF cell = "" THEN "0" ELSE cell)
    IN  IF p.nan THEN 0 ELSE p.cents

\* m.set(key, entry): a key the Map holds keeps its place.
feSet(m, key, entry) ==
    IF \E i \in 1..Len(m) : m[i].item = key
    THEN [i \in 1..Len(m) |->
            IF m[i].item = key THEN [item |-> key, mean |-> entry] ELSE m[i]]
    ELSE Append(m, [item |-> key, mean |-> entry])

RECURSIVE feLoop(_, _, _, _)
feLoop(header, lines, i, m) ==
    IF i > Len(lines) THEN m
    ELSE LET parts == lines[i]
             item  == parts[1]
         IN  IF item = "" THEN feLoop(header, lines, i + 1, m)
             ELSE feLoop(header, lines, i + 1,
                         feSet(m, trim(item),
                               [g \in Regions |->
                                   cellValue(header, parts, ColumnOf[g])]))

\* parseFilteredExpenditures(text): the Map, as the sequence of its entries
\* in insertion order.  A line is the sequence of its cells.
parseFilteredExpenditures(t) ==
    IF Len(t) = 0 THEN <<>>
    ELSE feLoop(Head(t), Tail(t), 1, <<>>)

weeklyValue_regionOnly(entry, region) ==
    IF region \in DOMAIN entry THEN entry[region]
    ELSE entry["United States"]

\* Number(entry[region] || entry['United States'] || 0), in cents: a
\* region the entry has no property for, or one whose value is 0, gives way
\* to the nationwide value.
weeklyValue(entry, region) ==
    IF region \in DOMAIN entry /\ entry[region] # 0 THEN entry[region]
    ELSE entry["United States"]

\* for(const t of selectedTypes){ ... }: the loop over the selected types.
RECURSIVE referenceLoop(_, _, _, _, _)
referenceLoop(feMap, selected, region, i, acc) ==
    IF i > Len(selected) THEN acc
    ELSE LET m == matchedIndex(feMap, selected[i])
         IN  \* if(!matchedKey) continue: null, or the empty key
             IF m = 0 \/ feMap[m].item = ""
             THEN referenceLoop(feMap, selected, region, i + 1, acc)
             ELSE referenceLoop(feMap, selected, region, i + 1,
                    [totalWeekly  |-> acc.totalWeekly
                                        + weeklyValue(feMap[m].mean, region),
                     matchedCount |-> acc.matchedCount + 1,
                     matchedKeys  |-> Append(acc.matchedKeys, feMap[m].item)])

referenceTotals(feMap, selected, region) ==
    referenceLoop(feMap, selected, region, 1,
                  [totalWeekly |-> 0, matchedCount |-> 0, matchedKeys |-> <<>>])

Northeast == {"Connecticut", "Maine", "Massachusetts", "New Hampshire",
              "Rhode Island", "Vermont", "New Jersey", "New York",
              "Pennsylvania"}
Midwest == {"Illinois", "Indiana", "Michigan", "Ohio", "Wisconsin", "Iowa",
            "Kansas", "Minnesota", "Missouri", "Nebraska", "North Dakota",
            "South Dakota"}
South == {"Delaware", "Florida", "Georgia", "Maryland", "North Carolina",
          "South Carolina", "Virginia", "West Virginia", "Alabama",
          "Kentucky", "Mississippi", "Tennessee", "Arkansas", "Louisiana",
          "Oklahoma", "Texas", "District of Columbia"}
West == {"Arizona", "Colorado", "Idaho", "Montana", "Nevada", "New Mexico",
         "Utah", "Wyoming", "Alaska", "California", "Hawaii", "Oregon",
         "Washington"}

\* mapping is an object literal: mapping[s] also finds the members the
\* literal inherits from Object.prototype, all of them truthy.  Four of
\* them, with the value the lookup gives.
ObjectPrototype ==
    [k \in {"constructor", "toString", "valueOf", "hasOwnProperty"} |->
        CASE k = "constructor"    -> "function Object"
          [] k = "toString"       -> "function toString"
          [] k = "valueOf"        -> "function valueOf"
          [] k = "hasOwnProperty" -> "function hasOwnProperty"]

stateToRegion(state) ==
    IF state = "" THEN "United States"
    ELSE LET s == trim(state)
         IN  IF s \in Northeast THEN "Northeast"
             ELSE IF s \in Midwest THEN "Midwest"
             ELSE IF s \in South THEN "South"
             ELSE IF s \in West THEN "West"
             ELSE IF s \in DOMAIN ObjectPrototype THEN ObjectPrototype[s]
             ELSE "United States"

\* Number(s) for the income cells of the dataset: an empty cell is 0, a
\* cell that is no number is NaN.
IncomeValue ==
    [s \in {"", "0", "500", "2000", "52000", "-2000", "-4000"} |->
        CASE s = "500"   -> 500
          [] s = "2000"  -> 2000
          [] s = "52000" -> 52000
          [] s = "-2000" -> 0 - 2000
          [] s = "-4000" -> 0 - 4000
          [] OTHER       -> 0]

Number(s) ==
    IF s \in DOMAIN IncomeValue
    THEN [nan |-> FALSE, val |-> IncomeValue[s]]
    ELSE [nan |-> TRUE, val |-> 0]

\* The weekly income of a row as computeRegionAverageWeeklyIncome derives
\* it, in 52nds of a dollar (so that yearly / 52 stays an integer); nan
\* stands for an income that is NaN or 0.
rowIncome52(r) ==
    LET w == Number(r.income_weekly)
        y == Number(r.income_yearly)
    IN  IF ~w.nan /\ w.val # 0 THEN [nan |-> FALSE, val |-> 52 * w.val]
        ELSE IF ~y.nan /\ y.val # 0 THEN [nan |-> FALSE, val |-> y.val]
        ELSE [nan |-> TRUE, val |-> 0]

RECURSIVE incomeLoop_seenWhenCounted(_, _, _, _, _)
incomeLoop_seenWhenCounted(rs, region, i, seen, acc) ==
    IF i > Len(rs) THEN acc
    ELSE IF rs[i].id \in seen
         THEN incomeLoop_seenWhenCounted(rs, region, i + 1, seen, acc)
    ELSE IF stateToRegion(rs[i].location) # region
         THEN incomeLoop_seenWhenCounted(rs, region, i + 1, seen, acc)
    ELSE IF rowIncome52(rs[i]).nan
         THEN incomeLoop_seenWhenCounted(rs, region, i + 1, seen, acc)
    ELSE incomeLoop_seenWhenCounted(rs, region, i + 1, seen \cup {rs[i].id},
                    [sum52 |-> acc.sum52 + rowIncome52(rs[i]).val,
                     count |-> acc.count + 1])

RECURSIVE incomeLoop(_, _, _, _, _)
incomeLoop(rs, region, i, seen, acc) ==
    IF i > Len(rs) THEN acc
    ELSE IF rs[i].id \in seen
         THEN incomeLoop(rs, region, i + 1, seen, acc)
    ELSE IF stateToRegion(rs[i].location) # region
         THEN incomeLoop(rs, region, i + 1, seen \cup {rs[i].id}, acc)
    ELSE IF rowIncome52(rs[i]).nan
         THEN incomeLoop(rs, region, i + 1, seen \cup {rs[i].id}, acc)
    ELSE incomeLoop(rs, region, i + 1, seen \cup {rs[i].id},
                    [sum52 |-> acc.sum52 + rowIncome52(rs[i]).val,
                     count |-> acc.count + 1])

\* computeRegionAverageWeeklyIncome(rows, region): the average is
\* sum52 / (52 * count); count = 0 stands for the null it returns.
computeRegionAverageWeeklyIncome(rs, region) ==
    incomeLoop(rs, region, 1, {}, [sum52 |-> 0, count |-> 0])

\* userIncRaw, in 52nds of a dollar: Number(income_weekly) ||
\* Number(income_yearly) / 52 when either cell is non-empty, else NaN.
userIncome52(firstRow) ==
    LET w == Number(firstRow.income_weekly)
        y == Number(firstRow.income_yearly)
    IN  IF firstRow.income_weekly = "" /\ firstRow.income_yearly = ""
        THEN [nan |-> TRUE, val |-> 0]
        ELSE IF ~w.nan /\ w.val # 0 THEN [nan |-> FALSE, val |-> 52 * w.val]
        ELSE IF y.nan THEN [nan |-> TRUE, val |-> 0]
        ELSE [nan |-> FALSE, val |-> y.val]

adjustedTotal_anyIncome(roundedTotal, rs, firstRow, region) ==
    LET avg == computeRegionAverageWeeklyIncome(rs, region)
        u   == userIncome52(firstRow)
    IN  IF avg.count # 0 /\ ~u.nan /\ avg.sum52 > 0
        THEN toFixed2(roundedTotal * u.val * avg.count, avg.sum52)
        ELSE roundedTotal

\* adjustedTotal: roundedTotal scaled by userWeeklyInc / regionAvgInc when
\* both are positive, else roundedTotal.
adjustedTotal(roundedTotal, rs, firstRow, region) ==
    LET avg == computeRegionAverageWeeklyIncome(rs, region)
        u   == userIncome52(firstRow)
    IN  IF avg.count # 0 /\ ~u.nan /\ u.val > 0 /\ avg.sum52 > 0
        THEN toFixed2(roundedTotal * u.val * avg.count, avg.sum52)
        ELSE roundedTotal

referenceDatasets_always(feMap, selected, rs, firstRow, state, weeks) ==
    LET region == stateToRegion(state)
        tot    == referenceTotals(feMap, selected, region)
    IN  << [label |-> "region avg",
            data  |-> [k \in 1..Len(weeks) |->
                         adjustedTotal(toFixed2(tot.totalWeekly, 1),
                                       rs, firstRow, region)]] >>

\* The reference dataset drawChartForUser adds when a selected type
\* matched, as a sequence of at most one dataset.
referenceDatasets(feMap, selected, rs, firstRow, state, weeks) ==
    LET region == stateToRegion(state)
        tot    == referenceTotals(feMap, selected, region)
    IN  IF tot.matchedCount > 0
        THEN << [label |-> "region avg",
                 data  |-> [k \in 1..Len(weeks) |->
                              adjustedTotal(toFixed2(tot.totalWeekly, 1),
                                            rs, firstRow, region)]] >>
        ELSE <<>>

(***************************************************************************)
(* Inputs                                                                  *)
(***************************************************************************)

\* Offsets of the browsers the page runs in: US Central (daylight time),
\* UTC, and Central European summer time.
TZOffsets == {0 - 5, 0, 2}

DateSpan == 9
Dates == ISO(2025, 5, 30) .. (ISO(2025, 5, 30) + DateSpan)

\* End dates about ten years after Dates: 520 Mondays after the first start
\* week, 521 Mondays after it, and far beyond the cap.
FarEnds == {ISO(2035, 5, 9), ISO(2035, 5, 16), ISO(2037, 1, 1)}

MaxN == 3

\* The purchase types, states and rows of the dataset.
Types == {"Food", "Gas"}
States == {"Texas", "Ohio"}

RowInc(id, location, date, amount, type, weekly, yearly) ==
    [id |-> id, location |-> location, purchase_date |-> date,
     purchase_amount |-> amount, purchase_type |-> type,
     income_weekly |-> weekly, income_yearly |-> yearly]

Row(id, location, date, amount, type) ==
    RowInc(id, location, date, amount, type, "", "")

RowPool ==
    { Row("1", "Texas", ISO(2025, 6, 2),  "50",    "Food"),
      Row("1", "Texas", ISO(2025, 6, 4),  "20.10", "Gas"),
      Row("1", "Texas", ISO(2025, 6, 10), "abc",   "Food"),
      Row("1", "Ohio",  ISO(2025, 6, 8),  "20.10", "Food"),
      Row("2", "Texas", ISO(2025, 6, 2),  "20.10", "Gas"),
      Row("2", "Texas", ISO(2025, 6, 10), "50",    "Food"),
      Row("2", "Texas", ISO(2025, 6, 8),  "abc",   "Food"),
      Row("3", "Ohio",  ISO(2025, 6, 4),  "50",    "Food") }

MaxRows == 3

RECURSIVE SeqsUpTo(_, _)
SeqsUpTo(S, n) ==
    IF n = 0 THEN {<<>>}
    ELSE LET shorter == SeqsUpTo(S, n - 1)
         IN  shorter \cup {Append(q, x) : q \in shorter, x \in S}

Datasets == SeqsUpTo(RowPool, MaxRows)

\* The (n, reference date) pairs of the trailing windows.
Windows == ((1..MaxN) \X {ISO(2025, 6, 10)}) \cup {<<6, ISO(2025, 6, 30)>>}

\* The page before any rendering: no invocation, no chart, no checkbox.
NoChart == [by |-> 0, labels |-> <<>>, datasets |-> <<>>]

InitialDom ==
    [checkboxes    |-> <<>>,
     checked       |-> {},
     startValue    |-> Empty,
     endValue      |-> Empty,
     listenerAdded |-> [start |-> FALSE, end |-> FALSE, reset |-> FALSE,
                        container |-> FALSE],
     listeners     |-> [start |-> 0, end |-> 0, reset |-> 0, container |-> 0]]

InitialLs ==
    [rangeStart |-> Empty, rangeEnd |-> Empty,
     savedTypes |-> FALSE, selectedPurchaseTypes |-> {}]

NoRendering ==
    /\ invs = <<>>
    /\ status = ""
    /\ chart = NoChart
    /\ alive = {}
    /\ dom = InitialDom
    /\ ls = InitialLs

\* The arguments of a call: a call changes none of them.
inputs == <<tz, inDate, inEnd, inN, inMax, today, text, rows, feText,
            userId, selectedTypes, inTypes, inState>>

(***************************************************************************)
(* The week functions applied to bounded inputs                            *)
(***************************************************************************)

InitWeek ==
    /\ tz \in TZOffsets
    /\ op = "none"
    /\ inDate \in Dates \cup {Empty}
    /\ inEnd \in Dates \cup FarEnds \cup {Empty}
    /\ inN \in 1..MaxN
    /\ inMax \in {Empty, ISO(2025, 6, 30)}
    /\ today = ISO(2025, 7, 4)
    /\ text = <<>>
    /\ rows = <<>>
    /\ feText = <<>>
    /\ userId = "1"
    /\ selectedTypes = {}
    /\ inTypes = <<>>
    /\ inState = "Texas"
    /\ out = <<>>
    /\ NoRendering

CallWeekStartISO ==
    /\ op = "none"
    /\ inDate # Empty
    /\ op' = "weekStartISO"
    /\ out' = weekStartISO(inDate)
    /\ UNCHANGED <<inputs, renderVars>>

CallLastNWeeksEndingAt ==
    /\ op = "none"
    /\ inEnd # Empty
    /\ op' = "lastNWeeksEndingAt"
    /\ out' = lastNWeeksEndingAt(inN, inEnd)
    /\ UNCHANGED <<inputs, renderVars>>

CallWeeksFromRange ==
    /\ op = "none"
    /\ inDate # Empty /\ inEnd # Empty
    /\ op' = "weeksFromRange"
    /\ out' = weeksFromRange(inDate, inEnd)
    /\ UNCHANGED <<inputs, renderVars>>

CallChooseWeeks ==
    /\ op = "none"
    /\ op' = "chooseWeeks"
    /\ out' = chooseWeeks(inDate, inEnd, inMax)
    /\ UNCHANGED <<inputs, renderVars>>

NextWeek ==
    \/ CallWeekStartISO
    \/ CallLastNWeeksEndingAt
    \/ CallWeeksFromRange
    \/ CallChooseWeeks

SpecWeek == InitWeek /\ [][NextWeek]_vars

(***************************************************************************)
(* Properties of the week functions                                        *)
(***************************************************************************)

\* C7: for any date d, weekStart(d) falls on a Monday and d - weekStart(d)
\* is between 0 and 6 days.
C7_MondayWithinSixDays ==
    op = "weekStartISO" =>
        /\ Weekday(out) = 1
        /\ inDate - out >= 0
        /\ inDate - out <= 6

\* C8: weekStart is idempotent: weekStart applied to the label weekStart(d)
\* returns that same label.
C8_Idempotent ==
    op = "weekStartISO" => weekStartISO(out) = out

\* C9: trailingWeeks(n, ref) returns exactly n labels, oldest first, each
\* exactly 7 days after the previous one, the last equal to weekStart(ref).
C9_TrailingWeeks ==
    op = "lastNWeeksEndingAt" =>
        /\ Len(out) = inN
        /\ \A k \in 1..(inN - 1) : out[k + 1] = out[k] + 7
        /\ out[inN] = weekStartISO(inEnd)

\* C10 (as stated): weeksFromRange(a, b) returns the same label sequence as
\* weeksFromRange(b, a).
C10_FunctionSwapInvariant ==
    op = "weeksFromRange" => out = weeksFromRange(inEnd, inDate)

\* C10 (amended): the swap is made by the caller, so the week sequence the
\* rendering chooses for the input values (a, b) is the one it chooses for
\* (b, a); weeksFromRange itself returns no label for a start bucketed
\* later than the end.
C10_CallerSwapInvariant ==
    /\ op = "chooseWeeks" => out = chooseWeeks(inEnd, inDate, inMax)
    /\ (op = "weeksFromRange" /\ mondayOf(inDate) > mondayOf(inEnd))
          => out = <<>>

C10_Witness ==
    /\ op = "chooseWeeks"
    /\ inDate # Empty /\ inEnd # Empty
    /\ inDate > inEnd
    /\ Len(out) >= 2
    /\ out = weeksFromRange(inEnd, inDate)

\* C11: for every start and end date, however far apart, weeksFromRange
\* returns at most 520 labels: a longer range is truncated to the cap.
C11_AtMostCap ==
    op = "weeksFromRange" => Len(out) <= WeekCap

(***************************************************************************)
(* The aggregation functions applied to bounded inputs                     *)
(***************************************************************************)

InitAgg ==
    /\ tz \in TZOffsets
    /\ op = "none"
    /\ inDate = Empty
    /\ inEnd = ISO(2025, 6, 10)
    /\ inN = 1
    /\ inMax = Empty
    /\ today = ISO(2025, 7, 4)
    /\ text = <<>>
    /\ rows \in Datasets
    /\ feText = <<>>
    /\ userId = "1"
    /\ selectedTypes = {}
    /\ inTypes = <<>>
    /\ inState = "Texas"
    /\ out = <<>>
    /\ NoRendering

\* The week sequence of the call.
weeksIn == lastNWeeksEndingAt(inN, inEnd)

CallComputeAggregates ==
    /\ op = "none"
    /\ op' = "computeAggregates"
    /\ out' = computeAggregates(rows, userId)
    /\ UNCHANGED <<inputs, renderVars>>

CallAggregateFiltered ==
    /\ op = "none"
    /\ \E sel \in SUBSET Types :
          /\ selectedTypes' = sel
          /\ out' = aggregateFiltered(rows, userId, sel)
    /\ op' = "aggregateFiltered"
    /\ UNCHANGED <<tz, inDate, inEnd, inN, inMax, today, text, rows, feText,
                 inTypes, userId, inState, renderVars>>

CallComputeStateAverageForWeeks ==
    /\ op = "none"
    /\ \E sel \in SUBSET Types, st \in States, win \in Windows :
          /\ selectedTypes' = sel
          /\ inState' = st
          /\ inN' = win[1]
          /\ inEnd' = win[2]
          /\ out' = computeStateAverageForWeeks(
                        aggregateFiltered(rows, userId, sel).stateUserWeek,
                        st, lastNWeeksEndingAt(win[1], win[2]))
    /\ op' = "computeStateAverageForWeeks"
    /\ UNCHANGED <<tz, inDate, inMax, today, text, rows, feText,
                 inTypes, userId, renderVars>>

CallFilteredSeries ==
    /\ op = "none"
    /\ firstRowIndex(rows, userId) # 0
    /\ \E sel \in (SUBSET Types) \ {{}}, win \in Windows :
          /\ selectedTypes' = sel
          /\ inN' = win[1]
          /\ inEnd' = win[2]
          /\ out' = filteredSeries(rows, userId, sel,
                                   lastNWeeksEndingAt(win[1], win[2]))
    /\ op' = "filteredSeries"
    /\ UNCHANGED <<tz, inDate, inMax, today, text, rows, feText,
                 inTypes, userId, inState, renderVars>>

NextAgg ==
    \/ CallComputeAggregates
    \/ CallAggregateFiltered
    \/ CallComputeStateAverageForWeeks
    \/ CallFilteredSeries

SpecAgg == InitAgg /\ [][NextAgg]_vars

(***************************************************************************)
(* Properties of the aggregation engine                                    *)
(***************************************************************************)

\* Every calendar day a week label of the modelled rows can be.
AllLabels == ISO(2025, 5, 1) .. ISO(2025, 7, 10)

NumericRow(r) == ~parseFloat(r.purchase_amount).nan

RECURSIVE SumCents(_, _)
SumCents(rs, I) ==
    IF I = {} THEN 0
    ELSE LET i == CHOOSE x \in I : TRUE
         IN  parseFloat(rs[i].purchase_amount).cents + SumCents(rs, I \ {i})

\* The purchase types that occur in the rows.
TypesOf(rs) == {rs[i].purchase_type : i \in 1..Len(rs)}

\* The rows of entity id that count for week w under the allowed types.
MatchingRows(rs, id, allowed, w) ==
    {i \in 1..Len(rs) :
        /\ rs[i].id = id
        /\ rs[i].purchase_type \in allowed
        /\ NumericRow(rs[i])
        /\ weekStartISO(rs[i].purchase_date) = w}

\* C4: the target entity's weekly total for w is the sum of the amounts of
\* exactly the rows of the target whose category is allowed (every category
\* when unrestricted), whose amount is numeric and whose date buckets to w.
C4_WeeklyTotal ==
    /\ op = "computeAggregates" =>
          /\ DOMAIN out.userMap \subseteq AllLabels
          /\ \A w \in AllLabels :
                GetOrZero(out.userMap, w)
                  = SumCents(rows, MatchingRows(rows, userId, TypesOf(rows), w))
    /\ op = "aggregateFiltered" =>
          /\ DOMAIN out.userMap \subseteq AllLabels
          /\ \A w \in AllLabels :
                GetOrZero(out.userMap, w)
                  = SumCents(rows, MatchingRows(rows, userId, selectedTypes, w))
    /\ op = "filteredSeries" =>
          \A k \in 1..Len(weeksIn) :
                out.userData[k]
                  = SumCents(rows, MatchingRows(rows, userId, selectedTypes,
                                                weeksIn[k]))

C4_Witness ==
    /\ op = "aggregateFiltered"
    /\ \E w \in DOMAIN out.userMap :
          /\ out.userMap[w] > 0
          /\ \E i \in 1..Len(rows) :
                /\ rows[i].id = userId
                /\ rows[i].purchase_type \notin selectedTypes
                /\ NumericRow(rows[i])
                /\ weekStartISO(rows[i].purchase_date) = w
          /\ \E i \in 1..Len(rows) :
                /\ rows[i].id # userId
                /\ rows[i].purchase_type \in selectedTypes
                /\ NumericRow(rows[i])
                /\ weekStartISO(rows[i].purchase_date) = w

\* The rows without those whose amount is not a number.
WithoutNaN(rs) == SelectSeq(rs, NumericRow)

\* C5: a row whose amount is not a number changes neither the target's
\* weekly totals nor any cohort's per-entity map (its entity is not even
\* registered), and the other rows are aggregated as if it were not there.
C5_NaNRowSkipped ==
    /\ op = "computeAggregates" =>
          out = computeAggregates(WithoutNaN(rows), userId)
    /\ op = "aggregateFiltered" =>
          /\ out = aggregateFiltered(WithoutNaN(rows), userId, selectedTypes)
          /\ \A i \in 1..Len(rows) :
                (/\ ~NumericRow(rows[i])
                 /\ \A j \in 1..Len(rows) :
                       (rows[j].id = rows[i].id
                        /\ rows[j].location = rows[i].location)
                          => ~NumericRow(rows[j]))
                  => rows[i].id \notin
                        DOMAIN GetOrEmpty(out.stateUserWeek, rows[i].location)

C5_Witness ==
    /\ op = "aggregateFiltered"
    /\ \E i \in 1..Len(rows) :
          /\ ~NumericRow(rows[i])
          /\ rows[i].purchase_type \in selectedTypes
          /\ rows[i].id # userId
          /\ rows[i].location \in DOMAIN out.stateUserWeek
          /\ rows[i].id \notin DOMAIN out.stateUserWeek[rows[i].location]
    /\ \E w \in DOMAIN out.userMap : out.userMap[w] > 0

\* The one element of a singleton set.
TheOnly(S) == CHOOSE x \in S : TRUE

\* C2: the cohort average is 0 for each week when the cohort has no recorded
\* entity, and with exactly one recorded entity it is that entity's weekly
\* total rounded to 2 decimals (0 for a week the entity has no total).
C2_CohortOfNoneOrOne ==
    op = "computeStateAverageForWeeks" =>
        LET m == GetOrEmpty(
                   aggregateFiltered(rows, userId, selectedTypes).stateUserWeek,
                   inState)
        IN  /\ Len(out) = Len(weeksIn)
            /\ DOMAIN m = {} => \A k \in 1..Len(out) : out[k] = 0
            /\ Cardinality(DOMAIN m) = 1 =>
                  \A k \in 1..Len(out) :
                     out[k] = toFixed2(GetOrZero(m[TheOnly(DOMAIN m)],
                                                 weeksIn[k]), 1)

C2_Witness ==
    /\ op = "computeStateAverageForWeeks"
    /\ Cardinality(DOMAIN GetOrEmpty(
           aggregateFiltered(rows, userId, selectedTypes).stateUserWeek,
           inState)) = 1
    /\ \E k \in 1..Len(out) : out[k] > 0
    /\ \E k \in 1..Len(out) : out[k] = 0

\* The rows of entity id in cohort st that count for week w.
CohortRows(rs, id, st, allowed, w) ==
    {i \in MatchingRows(rs, id, allowed, w) : rs[i].location = st}

\* The entities with a numeric row in cohort st, whatever its category.
CohortEntities(rs, st) ==
    {rs[i].id : i \in {j \in 1..Len(rs) :
                          rs[j].location = st /\ NumericRow(rs[j])}}

\* The entities with a numeric row of an allowed category in cohort st.
RegisteredEntities(rs, st, allowed) ==
    {rs[i].id : i \in {j \in 1..Len(rs) :
                          /\ rs[j].location = st
                          /\ NumericRow(rs[j])
                          /\ rs[j].purchase_type \in allowed}}

RECURSIVE SumOverEntities(_, _, _, _, _)
SumOverEntities(rs, ids, st, allowed, w) ==
    IF ids = {} THEN 0
    ELSE LET id == CHOOSE x \in ids : TRUE
         IN  SumCents(rs, CohortRows(rs, id, st, allowed, w))
               + SumOverEntities(rs, ids \ {id}, st, allowed, w)

\* The average of week w over the entities ids (0 when there is none).
AverageOver(rs, ids, st, allowed, w) ==
    IF ids = {} THEN 0
    ELSE toFixed2(SumOverEntities(rs, ids, st, allowed, w), Cardinality(ids))

\* C3 (as stated): the divisor of every week is the number of distinct
\* entities of the cohort, an entity whose rows are all outside the selected
\* categories included.
C3_DivisorCohortEntities ==
    op = "filteredSeries" =>
        \A k \in 1..Len(weeksIn) :
            out.stateAvg[k]
              = AverageOver(rows, CohortEntities(rows, stateOf(rows, userId)),
                            stateOf(rows, userId), selectedTypes, weeksIn[k])

\* C3 (amended): the divisor of every week is the number of distinct
\* entities with at least one numeric row of a selected category in the
\* cohort; such an entity counts in a week where it has no matching row
\* (adding 0), an entity with no such row at all does not count.
C3_DivisorRegisteredEntities ==
    op = "filteredSeries" =>
        /\ Len(out.stateAvg) = Len(weeksIn)
        /\ \A k \in 1..Len(weeksIn) :
            out.stateAvg[k]
              = AverageOver(rows,
                            RegisteredEntities(rows, stateOf(rows, userId),
                                               selectedTypes),
                            stateOf(rows, userId), selectedTypes, weeksIn[k])

C3_Witness ==
    /\ op = "filteredSeries"
    /\ LET st  == stateOf(rows, userId)
           reg == RegisteredEntities(rows, st, selectedTypes)
       IN  /\ Cardinality(reg) = 2
           /\ \E k \in 1..Len(weeksIn) :
                 /\ \E id \in reg :
                       CohortRows(rows, id, st, selectedTypes, weeksIn[k]) = {}
                 /\ out.stateAvg[k] > 0

C3_WitnessUnselected ==
    /\ op = "filteredSeries"
    /\ LET st  == stateOf(rows, userId)
       IN  /\ CohortEntities(rows, st)
                 # RegisteredEntities(rows, st, selectedTypes)
           /\ \E k \in 1..Len(weeksIn) : out.stateAvg[k] > 0

\* The Monday on or before a calendar date.
MondayOnOrBefore(d) == d - ((Weekday(d) + 6) % 7)

\* C6: for a dataset of a single row of the target, dated d with amount a,
\* and the weeks trailingWeeks(n, ref) whose window contains d, the
\* individual series has a at the index whose label is the Monday on or
\* before d and 0 at every other index, and the cohort average equals it.
C6_SingleRowSeries ==
    (/\ op = "filteredSeries"
     /\ Len(rows) = 1
     /\ NumericRow(rows[1])
     /\ rows[1].purchase_type \in selectedTypes
     /\ MondayOnOrBefore(inEnd) - 7 * (inN - 1)
            <= MondayOnOrBefore(rows[1].purchase_date)
     /\ MondayOnOrBefore(rows[1].purchase_date) <= MondayOnOrBefore(inEnd))
    =>
    (/\ Len(out.userData) = inN
     /\ \E k \in 1..inN : weeksIn[k] = MondayOnOrBefore(rows[1].purchase_date)
     /\ \A k \in 1..inN :
           out.userData[k]
             = IF weeksIn[k] = MondayOnOrBefore(rows[1].purchase_date)
               THEN parseFloat(rows[1].purchase_amount).cents
               ELSE 0
     /\ out.stateAvg = out.userData)

\* C6, the instance: the row (1, Texas, 2025-06-02, 50, Food) and
\* trailingWeeks(6, 2025-06-30) give 50.00 at the label 2025-06-02.
C6_Instance ==
    (/\ op = "filteredSeries"
     /\ rows = <<Row("1", "Texas", ISO(2025, 6, 2), "50", "Food")>>
     /\ "Food" \in selectedTypes
     /\ inN = 6 /\ inEnd = ISO(2025, 6, 30))
    =>
    (/\ weeksIn[2] = ISO(2025, 6, 2)
     /\ out.userData = <<0, 5000, 0, 0, 0, 0>>
     /\ out.stateAvg = out.userData)

(***************************************************************************)
(* The income normalization applied to bounded inputs                      *)
(***************************************************************************)

\* Rows that differ in entity, location and income cells.
IncRow(id, location, weekly, yearly) ==
    RowInc(id, location, ISO(2025, 6, 2), "50", "Food", weekly, yearly)

IncomePool ==
    { IncRow("1", "Texas",   "2000",  ""),
      IncRow("1", "Texas",   "",      "52000"),
      IncRow("1", "Texas",   "abc",   "52000"),
      IncRow("1", "Texas",   "0",     ""),
      IncRow("1", "Texas",   "",      ""),
      IncRow("1", "Texas",   "abc",   ""),
      IncRow("1", "Texas",   "",      "abc"),
      IncRow("1", "Ohio",    "2000",  ""),
      IncRow("2", "Texas",   "500",   ""),
      IncRow("2", "Texas",   "-2000", ""),
      IncRow("2", "Texas",   "-4000", ""),
      IncRow("2", "Ohio",    "500",   ""),
      IncRow("2", "Texas",   "",      "abc"),
      IncRow("3", "Florida", "500",   ""),
      IncRow("3", "Atlantis", "",     "52000") }

MaxIncomeRows == 3
IncomeDatasets == SeqsUpTo(IncomePool, MaxIncomeRows)

\* The rounded reference totals that are scaled, in cents.
RoundedTotals == {1205, 455}

InitInc ==
    /\ tz = 0
    /\ op = "none"
    /\ inDate = Empty
    /\ inEnd = Empty
    /\ inN = 1
    /\ inMax = Empty
    /\ today = ISO(2025, 7, 4)
    /\ text = <<>>
    /\ rows \in IncomeDatasets
    /\ feText = <<>>
    /\ userId = "1"
    /\ selectedTypes = {}
    /\ inTypes = <<>>
    /\ inState = ""
    /\ out = <<>>
    /\ NoRendering

\* computeRegionAverageWeeklyIncome(rows, region); the region is kept in
\* inState.
CallComputeRegionAverageWeeklyIncome ==
    /\ op = "none"
    /\ \E region \in Regions :
          /\ inState' = region
          /\ out' = computeRegionAverageWeeklyIncome(rows, region)
    /\ op' = "computeRegionAverageWeeklyIncome"
    /\ UNCHANGED <<tz, inDate, inEnd, inN, inMax, today, text, rows, feText,
                   userId, selectedTypes, inTypes, renderVars>>

\* Lines 348-360 for a target the dataset has a row of: the rounded total
\* (kept in inN) scaled by the target's income over its region's average.
CallAdjustedTotal ==
    /\ op = "none"
    /\ firstRowIndex(rows, userId) # 0
    /\ \E total \in RoundedTotals :
          /\ inN' = total
          /\ out' = adjustedTotal(total, rows,
                                  rows[firstRowIndex(rows, userId)],
                                  stateToRegion(stateOf(rows, userId)))
    /\ inState' = stateOf(rows, userId)
    /\ op' = "adjustedTotal"
    /\ UNCHANGED <<tz, inDate, inEnd, inMax, today, text, rows, feText,
                   userId, selectedTypes, inTypes, renderVars>>

NextInc ==
    \/ CallComputeRegionAverageWeeklyIncome
    \/ CallAdjustedTotal

SpecInc == InitInc /\ [][NextInc]_vars

\* The two incomes the scaling compares, for the state of an adjustedTotal
\* call: the target's own weekly income (52nds of a dollar) and the sum and
\* count behind its region's average.
Individual == userIncome52(rows[firstRowIndex(rows, userId)])
Cohort == computeRegionAverageWeeklyIncome(rows, stateToRegion(inState))

\* total * (individual / 52) / (sum52 / (52 * count)), to the nearest cent.
ScaledCents(total, individual52, sum52, count) ==
    LET product == total * individual52 * count
        whole   == product \div sum52
        rest    == product % sum52
    IN  IF 2 * rest >= sum52 THEN whole + 1 ELSE whole

\* C21: the reference value is scaled by individual income over cohort
\* average income when both are finite and strictly positive, and is left
\* as it is (factor 1) when the cohort average is zero or unavailable or the
\* individual income is zero, unavailable or not a number.
C21_IncomeScaleFactor ==
    op = "adjustedTotal" =>
        /\ (Cohort.count > 0 /\ Cohort.sum52 > 0
                /\ ~Individual.nan /\ Individual.val > 0)
              => out = ScaledCents(inN, Individual.val,
                                   Cohort.sum52, Cohort.count)
        /\ (Cohort.count = 0 \/ Cohort.sum52 = 0
                \/ Individual.nan \/ Individual.val = 0)
              => out = inN

\* An individual income of 2000 against a cohort average of 1000 doubles the
\* reference value.
C21_Witness ==
    /\ op = "adjustedTotal"
    /\ ~Individual.nan /\ Individual.val = 52 * 2000
    /\ Cohort.count = 3 /\ Cohort.sum52 = 3 * 52 * 1000
    /\ out = 2 * inN

\* The factor is 1 because the cohort average is zero although incomes are
\* recorded.
C21_WitnessZeroAverage ==
    /\ op = "adjustedTotal"
    /\ Cohort.count > 0 /\ Cohort.sum52 = 0
    /\ ~Individual.nan /\ Individual.val > 0
    /\ out = inN

\* The factor is 1 because the individual income is zero.
C21_WitnessZeroIndividual ==
    /\ op = "adjustedTotal"
    /\ Cohort.count > 0 /\ Cohort.sum52 > 0
    /\ ~Individual.nan /\ Individual.val = 0
    /\ out = inN

\* The first row of each entity, in dataset order.
Entities == {rows[i].id : i \in 1..Len(rows)}
FirstRowOf(e) ==
    rows[CHOOSE i \in 1..Len(rows) :
            /\ rows[i].id = e
            /\ \A j \in 1..(i - 1) : rows[j].id # e]

\* The figure written in an income cell, 0 when the cell holds none.
Figure(cell) ==
    CASE cell = "500"   -> 500
      [] cell = "2000"  -> 2000
      [] cell = "52000" -> 52000
      [] cell = "-2000" -> 0 - 2000
      [] cell = "-4000" -> 0 - 4000
      [] OTHER          -> 0

\* Weekly income of a row in 52nds of a dollar: the weekly figure if present
\* and non-zero, else the yearly figure over 52; 0 when neither resolves.
Weekly52(r) ==
    IF Figure(r.income_weekly) # 0 THEN 52 * Figure(r.income_weekly)
    ELSE Figure(r.income_yearly)

Survivors(region) ==
    {e \in Entities :
        /\ stateToRegion(FirstRowOf(e).location) = region
        /\ Weekly52(FirstRowOf(e)) # 0}

RECURSIVE IncomeSum(_)
IncomeSum(es) ==
    IF es = {} THEN 0
    ELSE LET e == CHOOSE x \in es : TRUE
         IN  Weekly52(FirstRowOf(e)) + IncomeSum(es \ {e})

\* C22: the cohort average counts each entity once, by its first row only;
\* it keeps the entities whose first row resolves to the region and has a
\* resolvable income (weekly if present and non-zero, else yearly / 52) and
\* returns the mean over them, or unavailable (count 0) when none survives.
C22_CohortAverageOverFirstRows ==
    op = "computeRegionAverageWeeklyIncome" =>
        /\ out.count = Cardinality(Survivors(inState))
        /\ out.sum52 = IncomeSum(Survivors(inState))

\* An entity whose first row lies outside the region and whose later row
\* lies inside it with an income is left out, while another entity is
\* averaged.
C22_Witness ==
    /\ op = "computeRegionAverageWeeklyIncome"
    /\ out.count = 1
    /\ \E i, j \in 1..Len(rows) :
          /\ i < j
          /\ rows[i].id = rows[j].id
          /\ rows[i].id \notin Survivors(inState)
          /\ stateToRegion(rows[j].location) = inState
          /\ Weekly52(rows[j]) # 0

\* No entity survives: the average is unavailable.
C22_WitnessUnavailable ==
    /\ op = "computeRegionAverageWeeklyIncome"
    /\ Len(rows) > 0
    /\ out.count = 0

\* An entity is averaged by its yearly figure over 52.
C22_WitnessYearly ==
    /\ op = "computeRegionAverageWeeklyIncome"
    /\ out.count = 2
    /\ \E e \in Survivors(inState) :
          /\ Figure(FirstRowOf(e).income_weekly) = 0
          /\ Weekly52(FirstRowOf(e)) = 52000

(***************************************************************************)
(* The reference lookup applied to bounded inputs                          *)
(***************************************************************************)

\* The header line of filtered_expenditures.csv.
FeHeader ==
    <<"Item", "United States Mean (Weekly $)", "Northeast Mean (Weekly $)",
      "Midwest Mean (Weekly $)", "South Mean (Weekly $)",
      "West Mean (Weekly $)">>

\* The filtered_expenditures.csv the page is served.
FeText ==
    << FeHeader,
       <<"Gasoline",  "45.50", "45.50", "0",   "50.25", "45.50">>,
       <<"Housing",   "400",   "400",   "400", "400",   "400">>,
       <<"Groceries", "110",   "110",   "110", "120.5", "110">> >>

\* Reference texts: the served one; keys that contain one another, a key
\* with spaces at its ends, cells that are empty, zero or no number; a key
\* set twice, a line without a name, a key of punctuation only; a header
\* without the South and West columns and lines that end early; a header
\* alone; no line at all.
FeTexts ==
    { FeText,
      << FeHeader,
         <<"GAS & OIL",   "45.50", "45.50", "0",     "50.25", "45.50">>,
         <<"Gas",         "50",    "",      "abc",   "0",     "50">>,
         <<" Groceries ", "110",   "110",   "110",   "120.5", "110">> >>,
      << FeHeader,
         <<"Housing", "400",   "400",   "400",   "400",   "400">>,
         <<"",        "50",    "50",    "50",    "50",    "50">>,
         <<"--",      "20.10", "20.10", "20.10", "20.10", "20.10">>,
         <<"Housing", "110",   "0",     "110",   "120.5", "110">> >>,
      << <<"Item", "United States Mean (Weekly $)", "Midwest Mean (Weekly $)">>,
         <<"Food",     "50",    "20.10">>,
         <<"Gasoline", "45.50">> >>,
      << FeHeader >>,
      << >> }

\* The types asked for and the selections made of them.
RefTypes == {"Food", "Gas", "Gasoline", "Housing", "Groceries", "Grocer",
             "grocery store", "GAS & OIL", "Gas-Oil 2", "--"}

MaxSelected == 2
Selections == SeqsUpTo({"Food", "Gas", "Housing", "Grocer"}, MaxSelected)

\* The values of the location column stateToRegion is given.
StateInputs ==
    {"", "Texas", " Texas ", "Ohio", "New York", "California", "texas",
     "Atlantis", "constructor", "toString"}

InitRef ==
    /\ tz = 0
    /\ op = "none"
    /\ inDate = Empty
    /\ inEnd = Empty
    /\ inN = 1
    /\ inMax = Empty
    /\ today = ISO(2025, 7, 4)
    /\ text = <<>>
    /\ rows = <<>>
    /\ feText \in FeTexts
    /\ userId = "1"
    /\ selectedTypes = {}
    /\ inTypes = <<>>
    /\ inState = ""
    /\ out = <<>>
    /\ NoRendering

\* Lines 329-337 for one selected type: the index of the matched key.
CallMatchCategory ==
    /\ op = "none"
    /\ \E t \in RefTypes :
          /\ inTypes' = <<t>>
          /\ out' = matchedIndex(parseFilteredExpenditures(feText), t)
    /\ op' = "matchCategory"
    /\ UNCHANGED <<tz, inDate, inEnd, inN, inMax, today, text, rows, feText,
                   userId, selectedTypes, inState, renderVars>>

CallStateToRegion ==
    /\ op = "none"
    /\ \E st \in StateInputs :
          /\ inState' = st
          /\ out' = stateToRegion(st)
    /\ op' = "stateToRegion"
    /\ UNCHANGED <<tz, inDate, inEnd, inN, inMax, today, text, rows, feText,
                   userId, selectedTypes, inTypes, renderVars>>

\* Lines 321-346: the table parsed, the region, the loop over the types.
CallReferenceTotals ==
    /\ op = "none"
    /\ \E sel \in Selections, st \in StateInputs :
          /\ inTypes' = sel
          /\ inState' = st
          /\ out' = referenceTotals(parseFilteredExpenditures(feText), sel,
                                    stateToRegion(st))
    /\ op' = "referenceTotals"
    /\ UNCHANGED <<tz, inDate, inEnd, inN, inMax, today, text, rows, feText,
                   userId, selectedTypes, renderVars>>

NextRef ==
    \/ CallMatchCategory
    \/ CallStateToRegion
    \/ CallReferenceTotals

SpecRef == InitRef /\ [][NextRef]_vars

(***************************************************************************)
(* The rendering invocation drawChartForUser                               *)
(*                                                                         *)
(* An invocation runs to its first await (the fetch of the dataset) when   *)
(* it is called, resumes when the dataset arrives and runs to the end or   *)
(* to its second await (the fetch of filtered_expenditures.csv), and       *)
(* resumes once more when that arrives.  Each resumption is one action:    *)
(* the page is single-threaded.  The canvas, its 2D context and Chart.js   *)
(* are present.  The balance display (lines 247-273) is left out: nothing  *)
(* below reads it.                                                         *)
(***************************************************************************)

Range(q) == {q[i] : i \in 1..Len(q)}

\* The datasets the page is served: header only; the target absent; one
\* row; two types; two entities of one cohort; a malformed amount and a
\* second cohort; the target with rows in two states; a type of two
\* words and a type of one, the target without an income.
RenderDatasets ==
    LET foodTx == RowInc("1", "Texas", ISO(2025, 6, 2),  "50",    "Food",
                         "2000", "")
        gasTx  == RowInc("1", "Texas", ISO(2025, 6, 10), "20.10", "Gas",
                         "2000", "")
        gasOh  == RowInc("1", "Ohio",  ISO(2025, 6, 8),  "20.10", "Gas",
                         "2000", "")
        peerTx == RowInc("2", "Texas", ISO(2025, 6, 4),  "50",    "Gas",
                         "", "52000")
        badOh  == RowInc("3", "Ohio",  ISO(2025, 6, 4),  "abc",   "Food",
                         "", "")
        storeTx == RowInc("1", "Texas", ISO(2025, 6, 2), "50",
                          "grocery store", "", "")
        grocerTx == RowInc("1", "Texas", ISO(2025, 6, 2), "50",
                           "Grocer", "", "")
    IN  { <<>>,
          <<peerTx>>,
          <<foodTx>>,
          <<foodTx, gasTx>>,
          <<peerTx, gasTx>>,
          <<badOh, foodTx, peerTx>>,
          <<gasOh, foodTx, gasTx>>,
          <<storeTx>>,
          <<grocerTx>> }

\* The purchase types of those datasets.
RenderTypes == Types \cup {"grocery store", "Grocer"}

\* The header line of assets/dataset.csv and the line of a row.
Header ==
    <<"id", "location", "purchase_date", "purchase_amount", "purchase_type",
      "income_weekly", "income_yearly">>

CsvLine(r) ==
    <<r.id, r.location, r.purchase_date, r.purchase_amount, r.purchase_type,
      r.income_weekly, r.income_yearly>>

\* parseCSV(text) for a text with at least one line: the first line is the
\* header, every other line an object keyed by the header's names.
parseCSV(t) ==
    LET header == Head(t)
        lines  == Tail(t)
        column(h) == CHOOSE c \in 1..Len(header) : header[c] = h
    IN  [header |-> header,
         rows   |-> [k \in 1..Len(lines) |->
                       [h \in Range(header) |-> lines[k][column(h)]]]]

\* lines.shift() is undefined for a text without lines: .split throws.
parseCSVThrows(t) == Len(t) = 0

\* The texts the page is served: no line at all, or a header and rows.
RenderTexts ==
    {<<>>} \cup
    {<<Header>> \o [k \in 1..Len(rs) |-> CsvLine(rs[k])] :
        rs \in RenderDatasets}

MaxInvocations == 2

\* The values a user gives a date input.
DateChoices == {ISO(2025, 6, 2), ISO(2025, 6, 10)}

NewInvocation ==
    [pc |-> "awaitData", outcome |-> "", weeks |-> <<>>, state |-> "",
     selected |-> <<>>, userData |-> <<>>, stateAvg |-> <<>>,
     aggregated |-> FALSE, fetchedFE |-> FALSE]

\* Array.from(new Set(rows.map(r => r.purchase_type).filter(Boolean)))
RECURSIVE uniqueTypes(_, _, _)
uniqueTypes(rs, i, acc) ==
    IF i > Len(rs) THEN acc
    ELSE IF rs[i].purchase_type = "" \/ rs[i].purchase_type \in Range(acc)
         THEN uniqueTypes(rs, i + 1, acc)
         ELSE uniqueTypes(rs, i + 1, Append(acc, rs[i].purchase_type))

getRowsDateRange(rs) ==
    LET ds == {rs[i].purchase_date : i \in 1..Len(rs)}
    IN  IF ds = {} THEN [min |-> Empty, max |-> Empty]
        ELSE [min |-> CHOOSE d \in ds : \A e \in ds : d <= e,
              max |-> CHOOSE d \in ds : \A e \in ds : d >= e]

\* getSelectedPurchaseTypes(): the checked boxes in document order.
getSelectedPurchaseTypes(boxes, checked) ==
    LET isChecked(t) == t \in checked
    IN  SelectSeq(boxes, isChecked)

Init ==
    /\ tz \in TZOffsets
    /\ op = "none"
    /\ inDate = Empty
    /\ inEnd = Empty
    /\ inN = 1
    /\ inMax = Empty
    /\ today = ISO(2025, 7, 4)
    /\ text \in RenderTexts
    /\ rows = IF parseCSVThrows(text) THEN <<>> ELSE parseCSV(text).rows
    /\ feText = FeText
    /\ userId = "1"
    /\ selectedTypes = {}
    /\ inTypes = <<>>
    /\ inState = "Texas"
    /\ out = <<>>
    \* DOMContentLoaded has called drawChartForUser(loggedId)
    /\ invs = <<NewInvocation>>
    /\ status = "Loading data..."
    /\ chart = NoChart
    /\ alive = {}
    /\ dom = InitialDom
    \* localStorage as an earlier visit left it: nothing saved, or the
    \* selection saved after "Select none"
    /\ ls \in {InitialLs, [InitialLs EXCEPT !.savedTypes = TRUE]}

pureVars == <<tz, op, inDate, inEnd, inN, inMax, today, text, rows, feText,
              userId, selectedTypes, inTypes, inState, out>>

\* The datasets of the chart: 'You', the state average, the reference line.
chartDatasets(userData, stateAvg, reference) ==
    << [label |-> "You", data |-> userData],
       [label |-> "state average", data |-> stateAvg] >> \o reference

listenersAdded_unguarded(flag, now) == IF now THEN 1 ELSE 0

\* if(!el.dataset.listenerAdded){ el.addEventListener(...);
\* el.dataset.listenerAdded = '1' }: the number of listeners one pass adds.
listenersAdded(flag, now) == IF now /\ ~flag THEN 1 ELSE 0

createChart_noDestroy(i, weeks, datasets) ==
    /\ status' = ""
    /\ alive' = alive \cup {i}
    /\ chart' = [by |-> i, labels |-> weeks, datasets |-> datasets]

\* if(window._dashboardChart) window._dashboardChart.destroy();
\* window._dashboardChart = new Chart(ctx, {...})
createChart(i, weeks, datasets) ==
    /\ status' = ""
    /\ alive' = (alive \ {chart.by}) \cup {i}
    /\ chart' = [by |-> i, labels |-> weeks, datasets |-> datasets]

\* The rest of the invocation once the selection is known: the test of the
\* empty selection, the zero series or the filtered aggregation.
afterSelection_noShortCircuit(i, weeks, state, selected) ==
    LET series == filteredSeries(rows, userId, Range(selected), weeks)
    IN  /\ invs' = [invs EXCEPT ![i] =
                      [@ EXCEPT !.pc = "awaitFE", !.weeks = weeks,
                                !.state = state, !.selected = selected,
                                !.userData = series.userData,
                                !.stateAvg = series.stateAvg,
                                !.aggregated = TRUE]]
        /\ UNCHANGED <<status, chart, alive>>

afterSelection(i, weeks, state, selected) ==
    IF Len(selected) = 0
    THEN LET zeros == [k \in 1..Len(weeks) |-> 0]
         IN  /\ invs' = [invs EXCEPT ![i] =
                           [@ EXCEPT !.pc = "done", !.outcome = "chart",
                                     !.weeks = weeks, !.state = state,
                                     !.selected = selected,
                                     !.userData = zeros, !.stateAvg = zeros]]
             /\ createChart(i, weeks, chartDatasets(zeros, zeros, <<>>))
    ELSE LET series == filteredSeries(rows, userId, Range(selected), weeks)
         IN  /\ invs' = [invs EXCEPT ![i] =
                           [@ EXCEPT !.pc = "awaitFE", !.weeks = weeks,
                                     !.state = state, !.selected = selected,
                                     !.userData = series.userData,
                                     !.stateAvg = series.stateAvg,
                                     !.aggregated = TRUE]]
             /\ UNCHANGED <<status, chart, alive>>

DataFails_keepsLoading(i) ==
    /\ invs[i].pc = "awaitData"
    /\ invs' = [invs EXCEPT ![i] = [@ EXCEPT !.pc = "done",
                                             !.outcome = "failed"]]
    /\ UNCHANGED <<pureVars, status, chart, alive, dom, ls>>

\* fetchText('assets/dataset.csv') threw: the catch of drawChartForUser.
DataFails(i) ==
    /\ invs[i].pc = "awaitData"
    /\ invs' = [invs EXCEPT ![i] = [@ EXCEPT !.pc = "done",
                                             !.outcome = "failed"]]
    /\ status' = "Failed to load data"
    /\ UNCHANGED <<pureVars, chart, alive, dom, ls>>

\* The dataset arrived without a line: parseCSV threw, the same catch.
DataEmpty(i) ==
    /\ invs[i].pc = "awaitData"
    /\ parseCSVThrows(text)
    /\ invs' = [invs EXCEPT ![i] = [@ EXCEPT !.pc = "done",
                                             !.outcome = "failed"]]
    /\ status' = "Failed to load data"
    /\ UNCHANGED <<pureVars, chart, alive, dom, ls>>

\* The dataset arrived: lines 173-316.
DataArrives(i) ==
    /\ invs[i].pc = "awaitData"
    /\ ~parseCSVThrows(text)
    /\ LET purchaseTypes == uniqueTypes(rows, 1, <<>>)
           \* renderPurchaseTypeCheckboxes returns when checkboxes exist
           rendered == Len(dom.checkboxes) > 0
           boxes    == IF rendered THEN dom.checkboxes ELSE purchaseTypes
           checked  == IF rendered THEN dom.checked
                       ELSE IF ~ls.savedTypes THEN Range(purchaseTypes)
                       ELSE Range(purchaseTypes) \cap ls.selectedPurchaseTypes
           addC     == ~rendered /\ ~dom.listenerAdded.container
           range    == getRowsDateRange(rows)
           wire     == range.min # Empty /\ range.max # Empty
           startV   == IF ~wire THEN dom.startValue
                       ELSE IF ls.rangeStart # Empty THEN ls.rangeStart
                       ELSE range.min
           endV     == IF ~wire THEN dom.endValue
                       ELSE IF ls.rangeEnd # Empty THEN ls.rangeEnd
                       ELSE range.max
           fl       == dom.listenerAdded
           weeks    == chooseWeeks(startV, endV, range.max)
           state    == stateOf(rows, userId)
           selected == getSelectedPurchaseTypes(boxes, checked)
       IN  /\ dom' =
                [checkboxes    |-> boxes,
                 checked       |-> checked,
                 startValue    |-> startV,
                 endValue      |-> endV,
                 listenerAdded |->
                    [start     |-> fl.start \/ wire,
                     end       |-> fl.end \/ wire,
                     reset     |-> fl.reset \/ wire,
                     container |-> fl.container \/ addC],
                 listeners |->
                    [start     |-> dom.listeners.start + listenersAdded(fl.start, wire),
                     end       |-> dom.listeners.end + listenersAdded(fl.end, wire),
                     reset     |-> dom.listeners.reset + listenersAdded(fl.reset, wire),
                     container |-> dom.listeners.container
                                     + listenersAdded(fl.container, addC)]]
           /\ IF state = ""
              THEN /\ status' = "User not found in dataset"
                   /\ invs' = [invs EXCEPT ![i] =
                                 [@ EXCEPT !.pc = "done",
                                           !.outcome = "notFound",
                                           !.weeks = weeks]]
                   /\ UNCHANGED <<chart, alive>>
              ELSE afterSelection(i, weeks, state, selected)
    /\ UNCHANGED <<pureVars, ls>>

\* filtered_expenditures.csv arrived: lines 321-388.
FEArrives(i) ==
    /\ invs[i].pc = "awaitFE"
    /\ LET inv == invs[i]
           ref == referenceDatasets(parseFilteredExpenditures(feText),
                                    inv.selected, rows,
                                    rows[firstRowIndex(rows, userId)],
                                    inv.state, inv.weeks)
       IN  createChart(i, inv.weeks,
                       chartDatasets(inv.userData, inv.stateAvg, ref))
    /\ invs' = [invs EXCEPT ![i] = [@ EXCEPT !.pc = "done",
                                             !.outcome = "chart",
                                             !.fetchedFE = TRUE]]
    /\ UNCHANGED <<pureVars, dom, ls>>

FEFails_fatal(i) ==
    /\ invs[i].pc = "awaitFE"
    /\ invs' = [invs EXCEPT ![i] = [@ EXCEPT !.pc = "done",
                                             !.outcome = "failed"]]
    /\ status' = "Failed to load data"
    /\ UNCHANGED <<pureVars, chart, alive, dom, ls>>

\* fetchText('filtered_expenditures.csv') threw: the inner catch, then the
\* chart without a reference line.
FEFails(i) ==
    /\ invs[i].pc = "awaitFE"
    /\ createChart(i, invs[i].weeks,
                   chartDatasets(invs[i].userData, invs[i].stateAvg, <<>>))
    /\ invs' = [invs EXCEPT ![i] = [@ EXCEPT !.pc = "done",
                                             !.outcome = "chart"]]
    /\ UNCHANGED <<pureVars, dom, ls>>

\* drawChartForUser(userId) is called: it runs to the first await.
startInvocation ==
    /\ Len(invs) < MaxInvocations
    /\ invs' = Append(invs, NewInvocation)
    /\ status' = "Loading data..."

\* An event reaches n listeners that each call drawChartForUser(userId).
startInvocations(n) ==
    /\ Len(invs) + n <= MaxInvocations
    /\ invs' = invs \o [k \in 1..n |-> NewInvocation]
    /\ status' = IF n > 0 THEN "Loading data..." ELSE status

\* The 'change' listeners of the container: the one DOMContentLoaded added
\* redraws, the one renderPurchaseTypeCheckboxes added saves the selection.
containerChange(checked) ==
    /\ startInvocation
    /\ ls' = IF dom.listenerAdded.container
             THEN [ls EXCEPT !.savedTypes = TRUE,
                             !.selectedPurchaseTypes = checked]
             ELSE ls

\* The user ticks or unticks the checkbox of type t.
ToggleCheckbox(t) ==
    /\ t \in Range(dom.checkboxes)
    /\ LET checked == IF t \in dom.checked THEN dom.checked \ {t}
                      ELSE dom.checked \cup {t}
       IN  /\ dom' = [dom EXCEPT !.checked = checked]
           /\ containerChange(checked)
    /\ UNCHANGED <<pureVars, chart, alive>>

\* The user clicks 'Select all'.
SelectAll ==
    /\ dom.listenerAdded.container
    /\ dom' = [dom EXCEPT !.checked = Range(dom.checkboxes)]
    /\ containerChange(Range(dom.checkboxes))
    /\ UNCHANGED <<pureVars, chart, alive>>

\* The user clicks 'Select none'.
SelectNone ==
    /\ dom.listenerAdded.container
    /\ dom' = [dom EXCEPT !.checked = {}]
    /\ containerChange({})
    /\ UNCHANGED <<pureVars, chart, alive>>

\* The user changes the start date; its listener, once added, saves the
\* value and redraws.
ChangeStart(v) ==
    /\ v # dom.startValue
    /\ dom' = [dom EXCEPT !.startValue = v]
    /\ ls' = IF dom.listeners.start > 0
             THEN [ls EXCEPT !.rangeStart = v] ELSE ls
    /\ startInvocations(dom.listeners.start)
    /\ UNCHANGED <<pureVars, chart, alive>>

ChangeEnd(v) ==
    /\ v # dom.endValue
    /\ dom' = [dom EXCEPT !.endValue = v]
    /\ ls' = IF dom.listeners.end > 0
             THEN [ls EXCEPT !.rangeEnd = v] ELSE ls
    /\ startInvocations(dom.listeners.end)
    /\ UNCHANGED <<pureVars, chart, alive>>

\* The user clicks the reset button: its listener restores the dataset's
\* range and redraws.
ResetRange ==
    /\ dom.listeners.reset > 0
    /\ LET range == getRowsDateRange(rows)
       IN  /\ dom' = [dom EXCEPT !.startValue = range.min,
                                 !.endValue = range.max]
           /\ ls' = [ls EXCEPT !.rangeStart = range.min,
                               !.rangeEnd = range.max]
    /\ startInvocations(dom.listeners.reset)
    /\ UNCHANGED <<pureVars, chart, alive>>

Next ==
    \/ \E i \in 1..Len(invs) : DataFails(i)
    \/ \E i \in 1..Len(invs) : DataEmpty(i)
    \/ \E i \in 1..Len(invs) : DataArrives(i)
    \/ \E i \in 1..Len(invs) : FEArrives(i)
    \/ \E i \in 1..Len(invs) : FEFails(i)
    \/ \E t \in RenderTypes : ToggleCheckbox(t)
    \/ SelectAll
    \/ SelectNone
    \/ \E v \in DateChoices : ChangeStart(v)
    \/ \E v \in DateChoices : ChangeEnd(v)
    \/ ResetRange

Spec == Init /\ [][Next]_vars

(***************************************************************************)
(* Properties of the rendering invocation                                  *)
(***************************************************************************)

\* The invocations that resolved the target's cohort with no type selected.
EmptySelectionRuns ==
    {i \in 1..Len(invs) :
        /\ invs[i].pc # "awaitData"
        /\ invs[i].outcome \notin {"failed", "notFound"}
        /\ invs[i].selected = <<>>}

AllZero(series, n) == Len(series) = n /\ \A k \in 1..n : series[k] = 0

\* C1: with no category selected, an invocation for an entity of the
\* dataset produces an individual and a cohort-average series that are all
\* zero and as long as the week sequence; the filtered aggregation is not
\* run and no reference line is added.
C1_EmptySelectionZeroSeries ==
    /\ \A i \in EmptySelectionRuns :
          /\ invs[i].pc = "done"
          /\ invs[i].outcome = "chart"
          /\ AllZero(invs[i].userData, Len(invs[i].weeks))
          /\ AllZero(invs[i].stateAvg, Len(invs[i].weeks))
          /\ ~invs[i].aggregated
          /\ ~invs[i].fetchedFE
          /\ chart.by = i =>
                /\ chart.labels = invs[i].weeks
                /\ Len(chart.datasets) = 2
                /\ AllZero(chart.datasets[1].data, Len(chart.labels))
                /\ AllZero(chart.datasets[2].data, Len(chart.labels))
    /\ \A i \in 1..Len(invs) : invs[i].aggregated => invs[i].selected # <<>>

C1_Witness ==
    \E i \in EmptySelectionRuns :
        /\ chart.by = i
        /\ Len(chart.labels) >= 2
        /\ Len(rows) >= 2
        /\ dom.checkboxes # <<>>
        /\ \E j \in 1..Len(invs) : j < i /\ invs[j].aggregated

\* C12: when two invocations overlap, the chart displayed once both have
\* finished is the one of the invocation that started later: an earlier
\* invocation that finishes after a newer one started never replaces the
\* newer invocation's chart.
C12_NewerInvocationWins ==
    (\A i \in 1..Len(invs) : invs[i].pc = "done") =>
        \A j \in 1..Len(invs) : invs[j].outcome = "chart" => chart.by >= j

\* The step in which invocation i leaves its wait for
\* filtered_expenditures.csv without the table.
ReferenceFailureStep(i) ==
    /\ i \in 1..Len(invs)
    /\ invs[i].pc = "awaitFE"
    /\ invs'[i].pc = "done"
    /\ ~invs'[i].fetchedFE

\* C13: if fetching or parsing the reference table fails in an invocation
\* with a non-empty selection, the invocation still renders the chart with
\* the individual and the cohort-average series computed from the dataset,
\* with no reference line, and the status reports no failure.
C13_ReferenceFailureNonFatal ==
    [][\A i \in 1..MaxInvocations : ReferenceFailureStep(i) =>
          LET series == filteredSeries(rows, userId, Range(invs[i].selected),
                                       invs[i].weeks)
          IN  /\ invs[i].selected # <<>>
              /\ invs'[i].outcome = "chart"
              /\ status' = ""
              /\ chart'.by = i
              /\ chart'.labels = invs[i].weeks
              /\ chart'.datasets =
                    << [label |-> "You", data |-> series.userData],
                       [label |-> "state average",
                        data |-> series.stateAvg] >>]_vars

C13_Witness ==
    \E i \in 1..Len(invs) :
        /\ invs[i].pc = "done"
        /\ invs[i].outcome = "chart"
        /\ invs[i].aggregated
        /\ ~invs[i].fetchedFE
        /\ chart.by = i
        /\ status = ""
        /\ Len(chart.datasets) = 2
        /\ \E k \in 1..Len(chart.labels) : chart.datasets[1].data[k] > 0

\* The step in which invocation i leaves its wait for the dataset.
DatasetStep(i) ==
    /\ i \in 1..Len(invs)
    /\ invs[i].pc = "awaitData"
    /\ invs'[i].pc # "awaitData"

\* C14: if the fetch of the dataset fails, or the dataset's text has no
\* line at all, the invocation aborts: it creates no chart, computes no
\* series and ends with a failure message in the status element.
C14_DatasetFailureAborts ==
    [][\A i \in 1..MaxInvocations : DatasetStep(i) =>
          /\ parseCSVThrows(text) => invs'[i].outcome = "failed"
          /\ invs'[i].outcome = "failed" =>
                /\ invs'[i].pc = "done"
                /\ status' = "Failed to load data"
                /\ chart' = chart
                /\ alive' = alive
                /\ invs'[i].userData = <<>>
                /\ invs'[i].stateAvg = <<>>
                /\ ~invs'[i].aggregated]_vars

\* The fetch failed while the chart of an earlier invocation is displayed.
C14_Witness ==
    \E i \in 1..Len(invs) :
        /\ invs[i].outcome = "failed"
        /\ status = "Failed to load data"
        /\ ~parseCSVThrows(text)
        /\ chart.by # 0
        /\ chart.by < i

\* The dataset's text had no line.
C14_WitnessNoLines ==
    \E i \in 1..Len(invs) :
        /\ invs[i].outcome = "failed"
        /\ status = "Failed to load data"
        /\ parseCSVThrows(text)

\* The target entity has no row in the dataset.
TargetAbsent == \A k \in 1..Len(rows) : rows[k].id # userId

\* C15: when the target entity has no row in the dataset, the invocation
\* ends in the entity-not-found outcome: the status says the user was not
\* found, no aggregation is run, and the invocation creates no chart and
\* no series.
C15_EntityNotFound ==
    [][\A i \in 1..MaxInvocations :
          (DatasetStep(i) /\ TargetAbsent /\ invs'[i].outcome # "failed") =>
              /\ invs'[i].pc = "done"
              /\ invs'[i].outcome = "notFound"
              /\ status' = "User not found in dataset"
              /\ chart' = chart
              /\ alive' = alive
              /\ ~invs'[i].aggregated
              /\ invs'[i].userData = <<>>
              /\ invs'[i].stateAvg = <<>>]_vars

C15_Witness ==
    \E i \in 1..Len(invs) :
        /\ TargetAbsent
        /\ Len(rows) > 0
        /\ invs[i].outcome = "notFound"
        /\ status = "User not found in dataset"
        /\ chart = NoChart

\* A string in lower case without its non-alphanumeric characters.
RECURSIVE NormalizedChars(_)
NormalizedChars(cs) ==
    IF cs = <<>> THEN <<>>
    ELSE LET c == toLowerCase(Head(cs))
         IN  (IF isAlnum(c) THEN <<c>> ELSE <<>>) \o NormalizedChars(Tail(cs))

Normalized(s) == NormalizedChars(Spelling(s))

\* b occurs in a: a is some prefix, then b, then some suffix.
Contains(a, b) ==
    \E pre \in 0..Len(a) :
        /\ pre + Len(b) <= Len(a)
        /\ \A k \in 1..Len(b) : a[pre + k] = b[k]

\* The normalized key equals, contains or is contained by the normalized
\* query.
Related(key, query) ==
    LET k == Normalized(key)
        q == Normalized(query)
    IN  k = q \/ Contains(k, q) \/ Contains(q, k)

\* The names of the lines of a reference text.
ItemsOf(t) == {t[k][1] : k \in 2..Len(t)}

\* The members of a selection that match an entry of the served table.
MatchedTypes(selected) ==
    {t \in Range(selected) : \E key \in ItemsOf(feText) : Related(key, t)}

\* The invocations that received the reference table and whose chart is
\* displayed.
ReferenceRuns ==
    {i \in 1..Len(invs) :
        invs[i].pc = "done" /\ invs[i].fetchedFE /\ chart.by = i}

\* C16: if none of the selected categories matches an entry of the
\* reference table, the chart has exactly the individual and the cohort
\* series and no reference line (not a line of zeros); a reference line is
\* there only when a selected category matched.
C16_NoMatchNoReferenceLine ==
    \A i \in ReferenceRuns :
        /\ MatchedTypes(invs[i].selected) = {} =>
              /\ Len(chart.datasets) = 2
              /\ chart.datasets[1] = [label |-> "You",
                                      data |-> invs[i].userData]
              /\ chart.datasets[2] = [label |-> "state average",
                                      data |-> invs[i].stateAvg]
        /\ Len(chart.datasets) > 2 => MatchedTypes(invs[i].selected) # {}

C16_Witness ==
    \E i \in ReferenceRuns :
        /\ invs[i].selected # <<>>
        /\ MatchedTypes(invs[i].selected) = {}
        /\ Len(chart.datasets) = 2
        /\ \E j \in 1..Len(invs) :
              /\ invs[j].fetchedFE
              /\ MatchedTypes(invs[j].selected) # {}

\* The served table has the entry "Groceries" with the South mean 120.5.
GroceriesSouth ==
    \E k \in 2..Len(feText) :
        feText[k][1] = "Groceries" /\ feText[k][5] = "120.5"

\* The displayed invocations of a target in a South cohort that has no
\* income, with the single selected category t.
SouthRuns(t) ==
    {i \in ReferenceRuns :
        /\ invs[i].selected = <<t>>
        /\ invs[i].state \in South
        /\ GroceriesSouth
        /\ rows[firstRowIndex(rows, userId)].income_weekly = ""
        /\ rows[firstRowIndex(rows, userId)].income_yearly = ""}

FlatLine(i, cents) ==
    /\ Len(chart.datasets) = 3
    /\ Len(chart.datasets[3].data) = Len(invs[i].weeks)
    /\ \A k \in 1..Len(invs[i].weeks) : chart.datasets[3].data[k] = cents

\* C18: with the entry "Groceries" of South mean 120.5 and a target in a
\* South cohort, the selected category "grocery store" is a match and the
\* chart gets a flat reference line of 120.50 at every week (before the
\* income adjustment).
C18_GroceryStoreMatches ==
    \A i \in SouthRuns("grocery store") : FlatLine(i, 12050)

\* C18 as the code has it: "grocery store" normalizes to "grocerystore",
\* which neither contains nor is contained by "groceries", so it is no
\* match and the chart gets no reference line; "Grocer", contained by
\* "groceries", is a match and gets the flat line of 120.50.
C18_GroceryStoreNoMatch ==
    /\ \A i \in SouthRuns("grocery store") :
          /\ ~Related("Groceries", "grocery store")
          /\ Len(chart.datasets) = 2
    /\ \A i \in SouthRuns("Grocer") :
          /\ Related("Groceries", "Grocer")
          /\ FlatLine(i, 12050)

C18_Witness ==
    \E i \in SouthRuns("grocery store") :
        /\ Len(chart.datasets) = 2
        /\ Len(chart.labels) > 0

C18_WitnessGrocer ==
    \E i \in SouthRuns("Grocer") : Len(chart.labels) > 0

\* The entries of the table, by position, that are related to query t.
RelatedEntries(table, t) ==
    {e \in 1..Len(table) : Related(table[e].item, t)}

C17_WitnessNoMatch ==
    /\ op = "matchCategory"
    /\ out = 0
    /\ Len(parseFilteredExpenditures(feText)) > 0

\* The line of text t that set the entry of the given key: the last line
\* with that name (a name set again replaces the entry).
LineOf(t, key) ==
    LET ks == {k \in 2..Len(t) : t[k][1] # "" /\ trim(t[k][1]) = key}
    IN  CHOOSE k \in ks : \A j \in ks : k >= j

\* The cell of line k under the column of region g, "" when the header has
\* no such column or the line ends before it.
CellOf(t, k, g) ==
    LET cols == {c \in 1..Len(t[1]) : t[1][c] = ColumnOf[g]}
    IN  IF cols = {} THEN ""
        ELSE LET col == CHOOSE c \in cols : TRUE
             IN  IF col > Len(t[k]) THEN "" ELSE t[k][col]

\* A cell that holds a number, and the number (0 for any other cell).
HasNumber(cell) == cell # "" /\ ~parseFloat(cell).nan

CellCents(cell) == IF HasNumber(cell) THEN parseFloat(cell).cents ELSE 0

\* The mean an entry contributes: the regional one, the nationwide one
\* when the entry has no value for the region.
MeanWhenPresent(t, k, region) ==
    IF region \in Regions /\ HasNumber(CellOf(t, k, region))
    THEN CellCents(CellOf(t, k, region))
    ELSE CellCents(CellOf(t, k, "United States"))

\* The same, the nationwide mean also taking the place of a regional
\* value of 0.
MeanWhenNonZero(t, k, region) ==
    IF region \in Regions /\ CellCents(CellOf(t, k, region)) # 0
    THEN CellCents(CellOf(t, k, region))
    ELSE CellCents(CellOf(t, k, "United States"))

\* The positions of a selection whose type is related to an entry.
MatchedPositions(table, sel) ==
    {p \in 1..Len(sel) : RelatedEntries(table, sel[p]) # {}}

FirstRelated(table, t) ==
    CHOOSE e \in RelatedEntries(table, t) :
        \A f \in RelatedEntries(table, t) : e <= f

\* The sum over the matched positions from p on of the mean of the entry
\* matched, by either reading of the fallback.
RECURSIVE ReferenceSum(_, _, _, _, _)
ReferenceSum(t, sel, region, p, zeroIsAbsent) ==
    IF p > Len(sel) THEN 0
    ELSE LET table == parseFilteredExpenditures(t)
             k     == LineOf(t, table[FirstRelated(table, sel[p])].item)
             here  == IF p \notin MatchedPositions(table, sel) THEN 0
                      ELSE IF zeroIsAbsent THEN MeanWhenNonZero(t, k, region)
                      ELSE MeanWhenPresent(t, k, region)
         IN  here + ReferenceSum(t, sel, region, p + 1, zeroIsAbsent)

\* C19: the regional reference value is the sum, over exactly the selected
\* categories that find a match, of the matched entry's mean for the
\* region, the nationwide mean being used only when the entry has no value
\* for the region; the match count is the number of selected categories
\* that matched.
C19_FallbackOnlyWhenAbsent ==
    op = "referenceTotals" =>
        /\ out.totalWeekly
              = ReferenceSum(feText, inTypes, stateToRegion(inState), 1, FALSE)
        /\ out.matchedCount
              = Cardinality(MatchedPositions(parseFilteredExpenditures(feText),
                                             inTypes))

\* C19 as the code has it: the nationwide mean is used when the entry's
\* value for the region is absent, empty, no number or 0.
C19_FallbackWhenZero ==
    op = "referenceTotals" =>
        /\ out.totalWeekly
              = ReferenceSum(feText, inTypes, stateToRegion(inState), 1, TRUE)
        /\ out.matchedCount
              = Cardinality(MatchedPositions(parseFilteredExpenditures(feText),
                                             inTypes))

\* One of two selected types matched, an entry whose cell for the region
\* is "0": the nationwide mean was used.
C19_Witness ==
    /\ op = "referenceTotals"
    /\ Len(inTypes) = 2
    /\ out.matchedCount = 1
    /\ LET table == parseFilteredExpenditures(feText)
           p     == CHOOSE q \in MatchedPositions(table, inTypes) : TRUE
           k     == LineOf(feText, table[FirstRelated(table, inTypes[p])].item)
           g     == stateToRegion(inState)
       IN  /\ g \in Regions \ {"United States"}
           /\ CellOf(feText, k, g) = "0"
           /\ out.totalWeekly = CellCents(CellOf(feText, k, "United States"))
           /\ out.totalWeekly > 0

\* C20: stateToRegion is total: for every input string, the empty one and
\* any name that is not a listed state included, the result is one of
\* Northeast, Midwest, South, West and 'United States', and every unknown
\* or empty input gives 'United States'.
C20_TotalOverStrings ==
    op = "stateToRegion" =>
        /\ out \in Regions
        /\ trim(inState) \notin (Northeast \cup Midwest \cup South \cup West)
              => out = "United States"

\* C23: every chart created is aligned: each of its series (individual,
\* cohort average, and the reference line when present) has exactly one
\* entry per week label, and the reference line is flat.
C23_ChartAligned ==
    chart.by # 0 =>
        /\ \A d \in 1..Len(chart.datasets) :
              Len(chart.datasets[d].data) = Len(chart.labels)
        /\ Len(chart.datasets) \in {2, 3}
        /\ Len(chart.datasets) = 3 =>
              \A k, l \in 1..Len(chart.labels) :
                 chart.datasets[3].data[k] = chart.datasets[3].data[l]

\* A chart over several weeks with a reference line, in which the individual
\* spent in some weeks and not in others.
C23_Witness ==
    /\ chart.by # 0
    /\ Len(chart.datasets) = 3
    /\ Len(chart.labels) >= 2
    /\ \E k, l \in 1..Len(chart.labels) :
          /\ chart.datasets[1].data[k] # 0
          /\ chart.datasets[1].data[l] = 0

\* The step in which invocation i creates its chart.
CreatesChart(i) ==
    /\ i \in 1..Len(invs)
    /\ invs[i].outcome # "chart"
    /\ invs'[i].outcome = "chart"

\* C24: after any sequence of invocations, overlapping ones included, at
\* most one chart is alive: a step that creates a chart leaves that chart as
\* the only one alive and as the one stored in window._dashboardChart, and
\* no other step touches the stored chart.
C24_OneChartAlive ==
    [][ /\ Cardinality(alive') <= 1
        /\ \A i \in 1..Len(invs) :
              CreatesChart(i) => chart'.by = i /\ alive' = {i}
        /\ (\A i \in 1..Len(invs) : ~CreatesChart(i))
              => UNCHANGED <<chart, alive>> ]_vars

\* Two overlapping invocations have each created a chart; one is alive.
C24_Witness ==
    /\ Len(invs) = 2
    /\ invs[1].outcome = "chart"
    /\ invs[2].outcome = "chart"
    /\ Cardinality(alive) = 1
    /\ alive = {chart.by}

\* A user change of the start date, of the end date, or a click on the
\* reset button, once the rendering code has wired the control.
UserRangeStep ==
    \/ dom.listenerAdded.start /\ \E v \in DateChoices : ChangeStart(v)
    \/ dom.listenerAdded.end /\ \E v \in DateChoices : ChangeEnd(v)
    \/ dom.listenerAdded.reset /\ ResetRange

\* C25: however many times the rendering runs, the start-date input, the
\* end-date input, the reset button and the category container each carry
\* at most one listener registered by the rendering code, so one change of
\* a date bound or one reset click starts exactly one new invocation.
C25_ListenersOnce ==
    /\ [](/\ dom.listeners.start <= 1
          /\ dom.listeners.end <= 1
          /\ dom.listeners.reset <= 1
          /\ dom.listeners.container <= 1)
    /\ [][UserRangeStep => Len(invs') = Len(invs) + 1]_vars

\* The rendering ran twice over the wired controls; each carries one
\* listener.
C25_Witness ==
    /\ Len(invs) = 2
    /\ invs[1].pc # "awaitData"
    /\ invs[2].pc # "awaitData"
    /\ invs[1].outcome \notin {"failed", "empty"}
    /\ invs[2].outcome \notin {"failed", "empty"}
    /\ dom.listeners.start = 1
    /\ dom.listeners.end = 1
    /\ dom.listeners.reset = 1
    /\ dom.listeners.container = 1

\* The weeks for which either structure of an aggregation records a total.
RecordedWeeks(agg) ==
    DOMAIN agg.userMap
      \cup UNION {UNION {DOMAIN agg.stateUserWeek[st][e] :
                            e \in DOMAIN agg.stateUserWeek[st]} :
                    st \in DOMAIN agg.stateUserWeek}

\* The total recorded for the target under the cohort of its first row.
OwnCohortTotal(agg, w) ==
    GetOrZero(GetOrEmpty(GetOrEmpty(agg.stateUserWeek, stateOf(rows, userId)),
                         userId), w)

\* C26: for every dataset and selection, the target's individual total of
\* each week equals the total recorded for the target under the cohort
\* charted as its peer group (the location of its first row), also when the
\* target has rows with differing locations.
C26_IndividualAgreesWithCohort ==
    (op \in {"computeAggregates", "aggregateFiltered"}
        /\ firstRowIndex(rows, userId) # 0) =>
            \A w \in RecordedWeeks(out) :
                GetOrZero(out.userMap, w) = OwnCohortTotal(out, w)

====
